---- MODULE Spec2Model ----
(***************************************************************************)
(* A model of the fioc event bus (src/src/core/EventBus.ts).                *)
(*                                                                         *)
(* The dispatcher is built once by EventBusFactory from the bindings of a  *)
(* DI container and a MiddleWareOrder; afterwards invoke and publish run a *)
(* message through the ordered middleware pipeline to its handler(s).      *)
(*                                                                         *)
(* Tokens are identified by their key.  Messages, values and errors are    *)
(* records of one shape each, so that any two of them can be compared.     *)
(***************************************************************************)
EXTENDS Naturals, Sequences, FiniteSets, TLC

(***************************************************************************)
(* Bounds                                                                  *)
(***************************************************************************)
\* Largest number of notification handlers registered for one notification.
MaxHandlers == 2
\* Nested calls of findMiddlewaresForToken the call stack has room for: more
\* than the longest ancestor path of an acyclic hierarchy of the tokens.
StackLimit == 6
\* Largest number of times the factory is run on one container.
MaxBuilds == 2

(***************************************************************************)
(* Tokens                                                                  *)
(***************************************************************************)
\* Base kinds (IEventBus.ts) and the concrete message types of the container.
INotificationToken == "INotification"
ICommandToken == "ICommand"
IQueryToken == "IQuery"

MessageKeys == {"Ping", "Pong", "CreateUser", "GetUser"}
\* Tokens a message type may name as additional implements.
AncestorKeys == {"IA", "IB", "IRoot"}
TokenKeys ==
  MessageKeys \cup {INotificationToken, ICommandToken, IQueryToken}
    \cup AncestorKeys

\* createNotificationDIToken / createCommandDIToken / createQueryDIToken put
\* the base kind first in metadata.implements; base kinds implement nothing.
Implements ==
  [k \in TokenKeys |->
     CASE k \in {"Ping", "Pong"} -> <<INotificationToken>>
       [] k = "CreateUser" -> <<ICommandToken>>
       [] k = "GetUser" -> <<IQueryToken>>
       [] OTHER -> <<>>]

NotificationKeys ==
  {k \in MessageKeys :
     Len(Implements[k]) > 0 /\ Implements[k][1] = INotificationToken}
RequestKeys == MessageKeys \ NotificationKeys

MiddlewareKeys == {"M1", "M2"}
\* "MX" is a middleware token that is listed in an order but never bound.
OrderKeys == MiddlewareKeys \cup {"MX"}

(***************************************************************************)
(* Messages, values, errors                                                *)
(***************************************************************************)
Message(token, payload) == [token |-> token, payload |-> payload]
NoMessage == Message("", "")

\* The payload a caller sends, and the payload of the request a middleware
\* substitutes when it forwards a different request object to next.
CallerPayload == "payload"
SwappedPayload == "swapped"
\* The payload of a call made while another call is in the model.
OtherPayload == "payload2"

\* tag: "none" (nothing yet), "void" (undefined), "result" (a request
\* handler's return value), "errors" (best-effort's list), "short" (the
\* value of a middleware that did not call next), "error" (a failure).
\* by: who produced it; arg: the argument the handler was called with;
\* errs: the collected failures; msg: the parts of an error's message;
\* wraps: the middleware that replaced the value on the way out.
Value(tag, by, arg, errs, msg) ==
  [tag |-> tag, by |-> by, arg |-> arg, errs |-> errs, msg |-> msg,
   wraps |-> <<>>]
NoValue == Value("none", "", NoMessage, <<>>, <<>>)
Void == Value("void", "", NoMessage, <<>>, <<>>)
Failure(by, msg) == Value("error", by, NoMessage, <<>>, msg)
HandlerResult(h, arg) == Value("result", h, arg, <<>>, <<>>)
ErrorList(errs) == Value("errors", "", NoMessage, errs, <<>>)
ShortValue(m) == Value("short", m, NoMessage, <<>>, <<>>)
IsFailure(v) == v.tag = "error"

\* What a failing handler or middleware throws.
HandlerError(h) == Failure(h, <<"handler failed: ", h>>)
MiddlewareError(m) == Failure(m, <<"middleware failed: ", m>>)

(***************************************************************************)
(* State                                                                   *)
(***************************************************************************)
VARIABLES
  container,           \* the DI container: bindings, generics, MiddleWareOrder
  bus,                 \* "unbuilt", "ready" (dispatcher returned) or "failed"
  constructError,      \* the error EventBusFactory threw, NoValue if none
  notificationsState,  \* notification key -> handler tokens
  requestsState,       \* command/query key -> handler token
  middlewareState,     \* message or base-kind key -> middleware tokens
  call,                \* the invoke or publish call in progress
  parked,              \* a second call in progress, waiting at an await
  builds               \* how many times the factory has run

vars == <<container, bus, constructError, notificationsState, requestsState,
          middlewareState, call, parked, builds>>
registry == <<notificationsState, requestsState, middlewareState>>

(***************************************************************************)
(* The container the factory is given                                      *)
(***************************************************************************)
\* Notification handler tokens in registration order, all for "Ping".
NotificationHandlerOrder == <<"HB", "HA", "HC", "HD">>
NotificationHandlerOptions ==
  {SubSeq(NotificationHandlerOrder, 1, n) : n \in 0..MaxHandlers}

\* Command handlers and query handlers (findImplementationTokens of each).
RequestHandlerOptions ==
  {<<<<>>, <<>>>>, <<<<"CH">>, <<>>>>, <<<<"CH">>, <<"QH">>>>}

\* The request table does not depend on the notification handlers, so the
\* containers vary the request handlers only where no notification handler
\* is registered.
HandlerOptions ==
  {ho \in NotificationHandlerOptions \X RequestHandlerOptions :
     ho[1] = <<>> \/ ho[2] = <<<<"CH">>, <<"QH">>>>}

\* Middleware tokens in registration order.
MiddlewareOptions == {<<>>, <<"M1">>, <<"M1", "M2">>, <<"M2", "M1">>}

\* metadata.generics of a middleware token: the types it applies to.
MiddlewareGenericsOptions ==
  {<<INotificationToken>>, <<"Ping">>, <<ICommandToken, IQueryToken>>,
   <<"CreateUser">>}

\* The value registered under MiddleWareOrderToken.
MiddlewareOrderOptions ==
  {<<>>, <<"M1">>, <<"M1", "M2">>, <<"M2", "M1">>, <<"MX", "M1">>}

HandlerKeys == {"HA", "HB", "HC", "HD", "CH", "CH2", "QH"}

\* metadata.generics of the handler tokens.
HandlerGenerics ==
  [h \in HandlerKeys |->
     CASE h \in {"CH", "CH2"} -> <<"CreateUser">>
       [] h = "QH" -> <<"GetUser">>
       [] OTHER -> <<"Ping">>]

Range(s) == {s[i] : i \in 1..Len(s)}

Containers ==
  {[notificationHandlers |-> ho[1],
    commandHandlers |-> ho[2][1],
    queryHandlers |-> ho[2][2],
    middlewares |-> mw,
    generics |-> [k \in HandlerKeys \cup MiddlewareKeys |->
                    IF k \in HandlerKeys THEN HandlerGenerics[k]
                    ELSE IF k \in Range(mw) THEN mg[k] ELSE <<>>],
    implements |-> Implements,
    messages |-> {"Ping", "CreateUser", "GetUser"},
    middlewareOrder |-> mo] :
     ho \in HandlerOptions, mw \in MiddlewareOptions,
     mg \in [MiddlewareKeys -> MiddlewareGenericsOptions],
     mo \in MiddlewareOrderOptions}

\* Containers with malformed bindings: handlers and middleware registered
\* without generics, two request handlers for one key, middleware that the
\* order does not list.
BuildHandlerOptions ==
  {<<>>, <<"HB", "HA">>} \X {<<>>, <<"CH">>, <<"CH", "CH2">>}
    \X {<<>>, <<"QH">>}

BuildMiddlewareOptions == {<<>>, <<"M1">>, <<"M1", "M2">>}

\* metadata.generics of the tokens of such a container.
HandlerGenericsOptions == {<<>>, <<"Ping">>}
RequestGenericsOptions == {<<>>, <<"CreateUser">>, <<"GetUser">>}
BuildMiddlewareGenericsOptions ==
  {<<>>, <<INotificationToken>>, <<"CreateUser">>}

BuildGenerics ==
  {[k \in HandlerKeys \cup MiddlewareKeys |->
      CASE k = "HB" -> hb [] k = "HA" -> ha
        [] k = "CH" -> ch [] k = "CH2" -> ch2 [] k = "QH" -> qh
        [] k = "M1" -> m1 [] k = "M2" -> m2
        [] OTHER -> HandlerGenerics[k]] :
     hb \in HandlerGenericsOptions, ha \in HandlerGenericsOptions,
     ch \in {<<>>, <<"CreateUser">>}, ch2 \in RequestGenericsOptions,
     qh \in RequestGenericsOptions,
     m1 \in BuildMiddlewareGenericsOptions,
     m2 \in BuildMiddlewareGenericsOptions}

BuildContainers ==
  {[notificationHandlers |-> ho[1],
    commandHandlers |-> ho[2],
    queryHandlers |-> ho[3],
    middlewares |-> mw,
    generics |-> [k \in HandlerKeys \cup MiddlewareKeys |->
                    IF k \in Range(ho[1] \o ho[2] \o ho[3] \o mw) THEN g[k]
                    ELSE IF k \in HandlerKeys THEN HandlerGenerics[k]
                    ELSE <<>>],
    implements |-> Implements,
    messages |-> {"Ping", "CreateUser", "GetUser"},
    middlewareOrder |-> mo] :
     ho \in BuildHandlerOptions, mw \in BuildMiddlewareOptions,
     g \in BuildGenerics, mo \in MiddlewareOrderOptions}

\* Containers whose message tokens name additional implements: a chain of
\* ancestors, two paths to one ancestor, a token that is its own ancestor,
\* directly or through another, and a cycle out of reach of the messages.
WithImplements(pairs) ==
  [k \in TokenKeys |-> IF k \in DOMAIN pairs THEN pairs[k] ELSE Implements[k]]

HierarchyOptions ==
  {Implements,
   WithImplements("Ping" :> <<INotificationToken, "IA">>
                    @@ "IA" :> <<"IB">> @@ "IB" :> <<"IRoot">>),
   WithImplements("Ping" :> <<INotificationToken, "IA", "IB">>
                    @@ "IA" :> <<"IRoot">> @@ "IB" :> <<"IRoot">>),
   WithImplements("Ping" :> <<INotificationToken, "IA">>
                    @@ "IA" :> <<"IB">> @@ "IB" :> <<"IA">>),
   WithImplements("Ping" :> <<INotificationToken, "Ping">>),
   WithImplements("IA" :> <<"IB">> @@ "IB" :> <<"IA">>)}

HierarchyGenericsOptions ==
  {<<"Ping", INotificationToken>>, <<"IRoot">>, <<"IB", "Ping">>,
   <<"IA", "CreateUser">>}

HierarchyContainers ==
  {[notificationHandlers |-> <<"HB">>,
    commandHandlers |-> <<"CH">>,
    queryHandlers |-> <<>>,
    middlewares |-> mw,
    generics |-> [k \in HandlerKeys \cup MiddlewareKeys |->
                    IF k \in HandlerKeys THEN HandlerGenerics[k]
                    ELSE IF k \in Range(mw) THEN mg[k] ELSE <<>>],
    implements |-> im,
    messages |-> {"Ping", "CreateUser", "GetUser"},
    middlewareOrder |-> mo] :
     mw \in {<<"M1">>, <<"M1", "M2">>},
     mg \in [MiddlewareKeys -> HierarchyGenericsOptions],
     im \in HierarchyOptions,
     mo \in {<<"M1", "M2">>, <<"M2", "M1">>}}

\* The containers on which the factory is run more than once.
RebuildContainers ==
  {c \in BuildContainers :
     /\ c.middlewareOrder = <<"M1">>
     /\ Len(c.middlewares) <= 1
     /\ c.queryHandlers = <<>>}

\* Containers with two notification types and notification handlers bound
\* to one of them or to both.
FanoutGenericsOptions ==
  {<<"Ping">>, <<"Pong">>, <<"Ping", "Pong">>, <<"Pong", "Ping">>}

FanoutContainers ==
  {[notificationHandlers |-> nh,
    commandHandlers |-> <<"CH">>,
    queryHandlers |-> <<>>,
    middlewares |-> <<"M1">>,
    generics |-> [k \in HandlerKeys \cup MiddlewareKeys |->
                    IF k \in Range(nh) THEN g[k]
                    ELSE IF k \in HandlerKeys THEN HandlerGenerics[k]
                    ELSE IF k = "M1" THEN <<"Pong", ICommandToken>>
                    ELSE <<>>],
    implements |-> Implements,
    messages |-> {"Ping", "Pong", "CreateUser"},
    middlewareOrder |-> <<"M1">>] :
     nh \in {<<"HB">>, <<"HB", "HA">>, <<"HA", "HB">>},
     g \in [{"HA", "HB"} -> FanoutGenericsOptions]}

\* The containers on which two calls are made at a time.
ConcurrentContainers ==
  {[notificationHandlers |-> <<"HB">>,
    commandHandlers |-> <<"CH">>,
    queryHandlers |-> <<"QH">>,
    middlewares |-> <<"M1">>,
    generics |-> [k \in HandlerKeys \cup MiddlewareKeys |->
                    IF k \in HandlerKeys THEN HandlerGenerics[k]
                    ELSE IF k = "M1" THEN mg ELSE <<>>],
    implements |-> Implements,
    messages |-> {"Ping", "CreateUser", "GetUser"},
    middlewareOrder |-> <<"M1">>] :
     mg \in {<<ICommandToken, IQueryToken>>, <<INotificationToken>>}}

\* The containers on which messages of one type are dispatched again and
\* again: two middleware, M1 bound to both base kinds and M2 to the
\* notification, listed against the order of their registration.
RepeatContainers ==
  {[notificationHandlers |-> <<"HB">>,
    commandHandlers |-> <<"CH">>,
    queryHandlers |-> <<>>,
    middlewares |-> <<"M1", "M2">>,
    generics |-> [k \in HandlerKeys \cup MiddlewareKeys |->
                    IF k \in HandlerKeys THEN HandlerGenerics[k]
                    ELSE IF k = "M1" THEN <<INotificationToken, ICommandToken>>
                    ELSE mg],
    implements |-> Implements,
    messages |-> {"Ping", "CreateUser"},
    middlewareOrder |-> mo] :
     mg \in {<<"Ping">>}, mo \in {<<"M2", "M1">>}}

\* Containers whose handler tokens name several types or one type twice: a
\* notification handler bound to "Ping" twice, a command handler whose
\* generics name a second request type, with or without a query handler
\* bound to that type.
ListingGenericsOptions == {<<"Ping">>, <<"Ping", "Ping">>}
ListingRequestGenericsOptions ==
  {<<"CreateUser">>, <<"CreateUser", "GetUser">>, <<"GetUser", "CreateUser">>}

ListingContainers ==
  {[notificationHandlers |-> nh,
    commandHandlers |-> <<"CH">>,
    queryHandlers |-> qh,
    middlewares |-> <<"M1">>,
    generics |-> [k \in HandlerKeys \cup MiddlewareKeys |->
                    CASE k = "HB" -> hb
                      [] k = "CH" -> ch
                      [] k = "M1" -> <<INotificationToken, ICommandToken,
                                       IQueryToken>>
                      [] k \in HandlerKeys -> HandlerGenerics[k]
                      [] OTHER -> <<>>],
    implements |-> Implements,
    messages |-> {"Ping", "CreateUser", "GetUser"},
    middlewareOrder |-> <<"M1">>] :
     nh \in {<<"HB">>, <<"HB", "HA">>}, qh \in {<<>>, <<"QH">>},
     hb \in ListingGenericsOptions, ch \in ListingRequestGenericsOptions}

(***************************************************************************)
(* EventBusFactory: building the three lookup tables                       *)
(***************************************************************************)
EmptyTable == [k \in {} |-> <<>>]

\* table[key] ??= []; table[key].push(token)
PushUnder(table, key, token) ==
  IF key \in DOMAIN table
  THEN [table EXCEPT ![key] = Append(@, token)]
  ELSE table @@ (key :> <<token>>)

\* token.metadata.generics.forEach(g => push token under g.key)
RECURSIVE PushUnderEach(_, _, _, _)
\* A loop that files the token under generics[0] only.
PushUnderFirst(table, gens, i, token) ==
  IF i > Len(gens) THEN table ELSE PushUnder(table, gens[i], token)

PushUnderEach(table, gens, i, token) ==
  IF i > Len(gens) THEN table
  ELSE PushUnderEach(PushUnder(table, gens[i], token), gens, i + 1, token)

\* The result of one of the factory's loops: the table built, or the error
\* thrown by the first offending token.
Built(table) == [error |-> NoValue, table |-> table]
Thrown(by, msg) == [error |-> Failure(by, msg), table |-> EmptyTable]

\* Lines 81-89: only the two lengths are compared; the message lists the
\* bound middleware that the order does not contain.
RECURSIVE SelectNotIn(_, _, _)
\* A message that stops at the first bound middleware that is missing.
SelectFirstNotIn(tokens, i, order) ==
  IF i > Len(tokens) THEN <<>>
  ELSE IF tokens[i] \in Range(order)
       THEN SelectNotIn(tokens, i + 1, order)
       ELSE <<tokens[i]>>

SelectNotIn(tokens, i, order) ==
  IF i > Len(tokens) THEN <<>>
  ELSE IF tokens[i] \in Range(order)
       THEN SelectNotIn(tokens, i + 1, order)
       ELSE <<tokens[i]>> \o SelectNotIn(tokens, i + 1, order)

MiddlewareOrderCheck(tokensMiddlewares, middlewareOrder) ==
  IF Len(tokensMiddlewares) > Len(middlewareOrder)
  THEN Thrown("EventBusFactory",
              <<"Missing middlewares in middleware order: ">>
                \o SelectNotIn(tokensMiddlewares, 1, middlewareOrder))
  ELSE Built(EmptyTable)

\* A loop that passes over a handler without generics.
RECURSIVE BuildNotificationsStateLenient(_, _, _, _)
BuildNotificationsStateLenient(tokens, i, generics, table) ==
  IF i > Len(tokens) THEN Built(table)
  ELSE BuildNotificationsStateLenient(
         tokens, i + 1, generics,
         PushUnderEach(table, generics[tokens[i]], 1, tokens[i]))

\* Lines 91-103.
RECURSIVE BuildNotificationsState(_, _, _, _)
BuildNotificationsState(tokens, i, generics, table) ==
  IF i > Len(tokens) THEN Built(table)
  ELSE IF Len(generics[tokens[i]]) = 0
       THEN Thrown(tokens[i], <<"Notification handler ", tokens[i],
                                " is missing Notification generic">>)
       ELSE BuildNotificationsState(
              tokens, i + 1, generics,
              PushUnderEach(table, generics[tokens[i]], 1, tokens[i]))

\* A loop in which a later handler takes the key of an earlier one.
RECURSIVE BuildRequestsStateOverwriting(_, _, _, _)
BuildRequestsStateOverwriting(tokens, i, generics, table) ==
  IF i > Len(tokens) THEN Built(table)
  ELSE IF Len(generics[tokens[i]]) = 0
       THEN Thrown(tokens[i], <<"Request handler ", tokens[i],
                                " is missing generic Token">>)
       ELSE BuildRequestsStateOverwriting(
              tokens, i + 1, generics,
              (generics[tokens[i]][1] :> tokens[i]) @@ table)

\* A loop that files a request handler under every type its generics
\* name, as the notification handlers are filed.
RECURSIVE BuildRequestsStateEachGeneric(_, _, _, _)
BuildRequestsStateEachGeneric(tokens, i, generics, table) ==
  IF i > Len(tokens) THEN Built(table)
  ELSE IF Len(generics[tokens[i]]) = 0
       THEN Thrown(tokens[i], <<"Request handler ", tokens[i],
                                " is missing generic Token">>)
       ELSE LET keys == Range(generics[tokens[i]])
            IN IF keys \cap DOMAIN table # {}
               THEN Thrown(tokens[i],
                           <<"Request handler ", tokens[i],
                             " is already registered for Token ",
                             CHOOSE k \in keys : k \in DOMAIN table>>)
               ELSE BuildRequestsStateEachGeneric(
                      tokens, i + 1, generics,
                      table @@ [k \in keys |-> tokens[i]])

\* Lines 105-120: only generics[0] is read; one handler per key.
RECURSIVE BuildRequestsState(_, _, _, _)
BuildRequestsState(tokens, i, generics, table) ==
  IF i > Len(tokens) THEN Built(table)
  ELSE IF Len(generics[tokens[i]]) = 0
       THEN Thrown(tokens[i], <<"Request handler ", tokens[i],
                                " is missing generic Token">>)
       ELSE IF generics[tokens[i]][1] \in DOMAIN table
            THEN Thrown(tokens[i],
                        <<"Request handler ", tokens[i],
                          " is already registered for Token ",
                          generics[tokens[i]][1]>>)
            ELSE BuildRequestsState(
                   tokens, i + 1, generics,
                   table @@ (generics[tokens[i]][1] :> tokens[i]))

\* Lines 122-132.
RECURSIVE BuildMiddlewareState(_, _, _, _)
BuildMiddlewareState(tokens, i, generics, table) ==
  IF i > Len(tokens) THEN Built(table)
  ELSE IF Len(generics[tokens[i]]) = 0
       THEN Thrown(tokens[i], <<"Middleware token ", tokens[i],
                                " is missing generics">>)
       ELSE BuildMiddlewareState(
              tokens, i + 1, generics,
              PushUnderEach(table, generics[tokens[i]], 1, tokens[i]))

\* A factory with one table for the command handlers and one for the query
\* handlers, put together at the end.
EventBusFactorySeparateTables(c) ==
  LET order == MiddlewareOrderCheck(c.middlewares, c.middlewareOrder)
      notifications ==
        BuildNotificationsState(c.notificationHandlers, 1, c.generics,
                                EmptyTable)
      commands ==
        BuildRequestsState(c.commandHandlers, 1, c.generics, EmptyTable)
      queries ==
        BuildRequestsState(c.queryHandlers, 1, c.generics, EmptyTable)
      middlewares ==
        BuildMiddlewareState(c.middlewares, 1, c.generics, EmptyTable)
      error ==
        IF IsFailure(order.error) THEN order.error
        ELSE IF IsFailure(notifications.error) THEN notifications.error
        ELSE IF IsFailure(commands.error) THEN commands.error
        ELSE IF IsFailure(queries.error) THEN queries.error
        ELSE middlewares.error
  IN [error |-> error,
      notificationsState |->
        IF IsFailure(error) THEN EmptyTable ELSE notifications.table,
      requestsState |->
        IF IsFailure(error) THEN EmptyTable
        ELSE commands.table @@ queries.table,
      middlewareState |->
        IF IsFailure(error) THEN EmptyTable ELSE middlewares.table]

\* The factory body, lines 68-132, in the order the code runs its checks.
EventBusFactory(c) ==
  LET order == MiddlewareOrderCheck(c.middlewares, c.middlewareOrder)
      notifications ==
        BuildNotificationsState(c.notificationHandlers, 1, c.generics,
                                EmptyTable)
      requests ==
        BuildRequestsState(c.commandHandlers \o c.queryHandlers, 1,
                           c.generics, EmptyTable)
      middlewares ==
        BuildMiddlewareState(c.middlewares, 1, c.generics, EmptyTable)
      error ==
        IF IsFailure(order.error) THEN order.error
        ELSE IF IsFailure(notifications.error) THEN notifications.error
        ELSE IF IsFailure(requests.error) THEN requests.error
        ELSE middlewares.error
  IN [error |-> error,
      notificationsState |->
        IF IsFailure(error) THEN EmptyTable ELSE notifications.table,
      requestsState |-> IF IsFailure(error) THEN EmptyTable ELSE requests.table,
      middlewareState |->
        IF IsFailure(error) THEN EmptyTable ELSE middlewares.table]

(***************************************************************************)
(* Middleware resolution and ordering                                      *)
(***************************************************************************)
\* A deduplication that keeps only what occurs once.
DedupeDroppingRepeated(seq) ==
  SelectSeq(seq, LAMBDA x :
                   Cardinality({i \in 1..Len(seq) : seq[i] = x}) = 1)

\* Array.from(new Set(seq)): first occurrences, in order.
RECURSIVE Dedupe(_)
Dedupe(seq) ==
  IF Len(seq) = 0 THEN <<>>
  ELSE LET front == Dedupe(SubSeq(seq, 1, Len(seq) - 1))
       IN IF seq[Len(seq)] \in Range(front) THEN front
          ELSE Append(front, seq[Len(seq)])

\* Lines 142-154: the middleware registered under the token's own key, then
\* those of every token it implements, recursively.
RECURSIVE FindMiddlewaresForToken(_)
RECURSIVE FindMiddlewaresForEach(_, _)
\* A walk that follows the first implemented token only.
FindMiddlewaresForFirst(implements, i) ==
  IF i > Len(implements) THEN <<>>
  ELSE FindMiddlewaresForToken(implements[i])

FindMiddlewaresForEach(implements, i) ==
  IF i > Len(implements) THEN <<>>
  ELSE FindMiddlewaresForToken(implements[i])
         \o FindMiddlewaresForEach(implements, i + 1)

FindMiddlewaresForToken(token) ==
  LET middlewares ==
        IF token \in DOMAIN middlewareState THEN middlewareState[token]
        ELSE <<>>
  IN IF Len(container.implements[token]) = 0 THEN middlewares
     ELSE Dedupe(middlewares
                   \o FindMiddlewaresForEach(container.implements[token], 1))

\* Lines 149-151 on the engine's call stack: the walk calls itself for every
\* implemented token and keeps no record of the tokens it has seen; a call
\* nested deeper than the stack has room for ends the walk.
RECURSIVE StackOverflows(_, _)
StackOverflows(token, depth) ==
  \/ depth > StackLimit
  \/ \E i \in 1..Len(container.implements[token]) :
       StackOverflows(container.implements[token][i], depth + 1)

\* The RangeError of the engine.
StackOverflow ==
  Failure("findMiddlewaresForToken", <<"Maximum call stack size exceeded">>)

\* The filter with its two lists exchanged: the middleware that the order
\* contains, in the order they were found.
OrderedMiddlewaresAsFound(middlewares) ==
  IF Len(middlewares) > 0
  THEN SelectSeq(middlewares,
                 LAMBDA token : token \in Range(container.middlewareOrder))
  ELSE <<>>

\* A pipeline of every bound middleware of the order as soon as one
\* middleware applies.
OrderedMiddlewaresUnfiltered(middlewares) ==
  IF Len(middlewares) > 0
  THEN SelectSeq(container.middlewareOrder,
                 LAMBDA token : token \in Range(container.middlewares))
  ELSE <<>>

\* Lines 168-170: MiddleWareOrder filtered down to the given middleware.
OrderedMiddlewares(middlewares) ==
  IF Len(middlewares) > 0
  THEN SelectSeq(container.middlewareOrder,
                 LAMBDA token : token \in Range(middlewares))
  ELSE <<>>

(***************************************************************************)
(* A call                                                                  *)
(***************************************************************************)
\* What a middleware's handle does with the request and with next:
\*   pass   forwards the request, returns next's result
\*   swap   forwards a different request object, returns next's result
\*   wrap   forwards the request, returns a value of its own around the result
\*   short  returns without calling next
\*   throw  fails without calling next
\* A middleware that called next lets a failure of next pass through.
Behaviours == {"pass", "swap", "wrap", "short", "throw"}
CallsNext(b) == b \in {"pass", "swap", "wrap"}

Strategies == {"sequential", "parallel", "besteffort"}
\* The second argument of publish: a strategy, none, or an unknown string.
StrategyArguments == Strategies \cup {"undefined", "bogus"}

Event(ev, who, arg) == [ev |-> ev, who |-> who, arg |-> arg]

\* op        "none", "invoke" or "publish"
\* req       the message the caller passed
\* given     publish's strategy argument; strategy: the one in effect
\* chain     the pipeline's middleware, outermost first
\* behav     what each middleware entered so far did
\* depth     how many middleware are waiting for next to settle
\* cur       the request on its way in
\* phase     "idle", "down", "terminal" (handlers running), "up", "done"
\* handler   invoke's handler token; handlers: publish's handler tokens
\* defined   whether the notification's key has a handler list at all
\* sync      indices of the handlers that throw as soon as they are called
\* inflight  indices of the handlers started and not yet settled
\* errors    best-effort's collected failures
\* value     the value or failure on its way out, then the call's outcome
\* log       the observable events, in order
\* resolved  the tokens handed to container.resolve, in order
IdleCall ==
  [op |-> "none", req |-> NoMessage, given |-> "", strategy |-> "",
   chain |-> <<>>, behav |-> <<>>, depth |-> 0, cur |-> NoMessage,
   phase |-> "idle", handler |-> "", handlers |-> <<>>, defined |-> FALSE,
   sync |-> {}, inflight |-> {}, errors |-> <<>>, value |-> NoValue,
   log |-> <<>>, resolved |-> <<>>]

CallFree == call.phase \in {"idle", "done"}
AtTerminal == call.phase = "down" /\ call.depth = Len(call.chain)

Init ==
  /\ container \in Containers
  /\ bus = "unbuilt"
  /\ constructError = NoValue
  /\ notificationsState = EmptyTable
  /\ requestsState = EmptyTable
  /\ middlewareState = EmptyTable
  /\ call = IdleCall
  /\ parked = IdleCall
  /\ builds = 0

\* The same program given a container whose bindings may be malformed.
InitBuild ==
  /\ container \in BuildContainers
  /\ bus = "unbuilt"
  /\ constructError = NoValue
  /\ notificationsState = EmptyTable
  /\ requestsState = EmptyTable
  /\ middlewareState = EmptyTable
  /\ call = IdleCall
  /\ parked = IdleCall
  /\ builds = 0

\* The same program given message tokens with ancestors of their own.
InitHierarchy ==
  /\ container \in HierarchyContainers
  /\ bus = "unbuilt"
  /\ constructError = NoValue
  /\ notificationsState = EmptyTable
  /\ requestsState = EmptyTable
  /\ middlewareState = EmptyTable
  /\ call = IdleCall
  /\ parked = IdleCall
  /\ builds = 0

\* The same program with notification handlers of several notifications.
InitFanout ==
  /\ container \in FanoutContainers
  /\ bus = "unbuilt"
  /\ constructError = NoValue
  /\ notificationsState = EmptyTable
  /\ requestsState = EmptyTable
  /\ middlewareState = EmptyTable
  /\ call = IdleCall
  /\ parked = IdleCall
  /\ builds = 0

InitConcurrent ==
  /\ container \in ConcurrentContainers
  /\ bus = "unbuilt"
  /\ constructError = NoValue
  /\ notificationsState = EmptyTable
  /\ requestsState = EmptyTable
  /\ middlewareState = EmptyTable
  /\ call = IdleCall
  /\ parked = IdleCall
  /\ builds = 0

InitRebuild ==
  /\ container \in RebuildContainers
  /\ bus = "unbuilt"
  /\ constructError = NoValue
  /\ notificationsState = EmptyTable
  /\ requestsState = EmptyTable
  /\ middlewareState = EmptyTable
  /\ call = IdleCall
  /\ parked = IdleCall
  /\ builds = 0

InitRepeat ==
  /\ container \in RepeatContainers
  /\ bus = "unbuilt"
  /\ constructError = NoValue
  /\ notificationsState = EmptyTable
  /\ requestsState = EmptyTable
  /\ middlewareState = EmptyTable
  /\ call = IdleCall
  /\ parked = IdleCall
  /\ builds = 0

InitListing ==
  /\ container \in ListingContainers
  /\ bus = "unbuilt"
  /\ constructError = NoValue
  /\ notificationsState = EmptyTable
  /\ requestsState = EmptyTable
  /\ middlewareState = EmptyTable
  /\ call = IdleCall
  /\ parked = IdleCall
  /\ builds = 0

\* container.resolve(IEventBusToken) runs the factory once.
Construct ==
  /\ bus = "unbuilt"
  /\ LET built == EventBusFactory(container)
     IN /\ bus' = IF IsFailure(built.error) THEN "failed" ELSE "ready"
        /\ constructError' = built.error
        /\ notificationsState' = built.notificationsState
        /\ requestsState' = built.requestsState
        /\ middlewareState' = built.middlewareState
  /\ builds' = 1
  /\ UNCHANGED <<container, call, parked>>

\* A factory whose notification table outlives the run that built it: a
\* second run adds to the lists of the first.
ReconstructAccumulating ==
  /\ bus # "unbuilt"
  /\ CallFree /\ parked = IdleCall
  /\ builds < MaxBuilds
  /\ LET built == EventBusFactory(container)
         again == BuildNotificationsState(container.notificationHandlers, 1,
                                          container.generics,
                                          notificationsState)
     IN /\ bus' = IF IsFailure(built.error) THEN "failed" ELSE "ready"
        /\ constructError' = built.error
        /\ notificationsState' =
             IF IsFailure(built.error) THEN EmptyTable ELSE again.table
        /\ requestsState' = built.requestsState
        /\ middlewareState' = built.middlewareState
  /\ builds' = builds + 1
  /\ call' = IdleCall
  /\ UNCHANGED <<container, parked>>

\* The factory is run once more on the same container, between calls; the
\* dispatcher it returns has no call in progress.
Reconstruct ==
  /\ bus # "unbuilt"
  /\ CallFree /\ parked = IdleCall
  /\ builds < MaxBuilds
  /\ LET built == EventBusFactory(container)
     IN /\ bus' = IF IsFailure(built.error) THEN "failed" ELSE "ready"
        /\ constructError' = built.error
        /\ notificationsState' = built.notificationsState
        /\ requestsState' = built.requestsState
        /\ middlewareState' = built.middlewareState
  /\ builds' = builds + 1
  /\ call' = IdleCall
  /\ UNCHANGED <<container, parked>>

(***************************************************************************)
(* invoke and publish up to the start of the pipeline                      *)
(***************************************************************************)
\* invoke that treats a missing handler as publish treats missing handlers.
InvokeCallSilent(req) ==
  IF req.token \notin DOMAIN requestsState
  THEN [IdleCall EXCEPT !.op = "invoke", !.req = req, !.phase = "done",
                        !.value = Void]
  ELSE LET handlerToken == requestsState[req.token]
           chain == OrderedMiddlewares(FindMiddlewaresForToken(req.token))
       IN [IdleCall EXCEPT
             !.op = "invoke", !.req = req, !.cur = req, !.phase = "down",
             !.handler = handlerToken, !.chain = chain,
             !.resolved = <<handlerToken>> \o chain]

\* invoke that builds the pipeline before it looks the handler up.
InvokeCallPipelineFirst(req) ==
  LET chain == OrderedMiddlewares(FindMiddlewaresForToken(req.token))
  IN IF req.token \notin DOMAIN requestsState
     THEN [IdleCall EXCEPT
             !.op = "invoke", !.req = req, !.phase = "done",
             !.resolved = chain,
             !.value = Failure("invoke",
                               <<"Request handler not found for Request ",
                                 req.token>>)]
     ELSE [IdleCall EXCEPT
             !.op = "invoke", !.req = req, !.cur = req, !.phase = "down",
             !.handler = requestsState[req.token], !.chain = chain,
             !.resolved = <<requestsState[req.token]>> \o chain]

\* Lines 255-277.  The handler is looked up first; without one the call
\* fails before anything else happens.  Otherwise the handler is resolved,
\* then the pipeline's middleware in order, and the pipeline starts.
InvokeCall(req) ==
  IF req.token \notin DOMAIN requestsState
  THEN [IdleCall EXCEPT
          !.op = "invoke", !.req = req, !.phase = "done",
          !.value = Failure("invoke",
                            <<"Request handler not found for Request ",
                              req.token>>)]
  ELSE LET handlerToken == requestsState[req.token]
           chain == OrderedMiddlewares(FindMiddlewaresForToken(req.token))
       IN IF StackOverflows(req.token, 1)
          THEN [IdleCall EXCEPT
                  !.op = "invoke", !.req = req, !.phase = "done",
                  !.handler = handlerToken, !.resolved = <<handlerToken>>,
                  !.value = StackOverflow]
          ELSE [IdleCall EXCEPT
                  !.op = "invoke", !.req = req, !.cur = req, !.phase = "down",
                  !.handler = handlerToken, !.chain = chain,
                  !.resolved = <<handlerToken>> \o chain]

\* publish whose strategy defaults to "parallel".
PublishCallDefaultParallel(notification, given) ==
  LET defined == notification.token \in DOMAIN notificationsState
      chain ==
        OrderedMiddlewares(FindMiddlewaresForToken(notification.token))
  IN [IdleCall EXCEPT
        !.op = "publish", !.req = notification, !.cur = notification,
        !.given = given,
        !.strategy = IF given = "undefined" THEN "parallel" ELSE given,
        !.phase = "down", !.defined = defined,
        !.handlers = IF defined THEN notificationsState[notification.token]
                     ELSE <<>>,
        !.chain = chain, !.resolved = chain]

\* publish whose pipeline depends on the strategy: the sequential strategy
\* nests the middleware the other way round.
PublishCallOrderByStrategy(notification, given) ==
  LET defined == notification.token \in DOMAIN notificationsState
      ordered ==
        OrderedMiddlewares(FindMiddlewaresForToken(notification.token))
      chain == IF given = "sequential"
               THEN [i \in 1..Len(ordered) |-> ordered[Len(ordered) + 1 - i]]
               ELSE ordered
      started ==
        [IdleCall EXCEPT
           !.op = "publish", !.req = notification, !.given = given,
           !.strategy = IF given = "undefined" THEN "besteffort" ELSE given,
           !.defined = defined,
           !.handlers = IF defined THEN notificationsState[notification.token]
                        ELSE <<>>]
  IN IF StackOverflows(notification.token, 1)
     THEN [started EXCEPT !.phase = "done", !.value = StackOverflow]
     ELSE [started EXCEPT !.cur = notification, !.phase = "down",
                          !.chain = chain, !.resolved = chain]

\* publish that checks its strategy argument before it does anything else.
PublishCallValidating(notification, given) ==
  LET defined == notification.token \in DOMAIN notificationsState
      chain ==
        OrderedMiddlewares(FindMiddlewaresForToken(notification.token))
      started ==
        [IdleCall EXCEPT
           !.op = "publish", !.req = notification, !.given = given,
           !.strategy = IF given = "undefined" THEN "besteffort" ELSE given,
           !.defined = defined,
           !.handlers = IF defined THEN notificationsState[notification.token]
                        ELSE <<>>]
  IN IF given \notin Strategies \cup {"undefined"}
     THEN [started EXCEPT
             !.phase = "done",
             !.value = Failure("publish",
                               <<"Invalid publish strategy: ", given>>)]
     ELSE IF StackOverflows(notification.token, 1)
          THEN [started EXCEPT !.phase = "done", !.value = StackOverflow]
          ELSE [started EXCEPT !.cur = notification, !.phase = "down",
                               !.chain = chain, !.resolved = chain]

\* Lines 283-316.  strategy defaults to "besteffort"; a notification without
\* handlers is published like any other.
PublishCall(notification, given) ==
  LET defined == notification.token \in DOMAIN notificationsState
      chain ==
        OrderedMiddlewares(FindMiddlewaresForToken(notification.token))
      started ==
        [IdleCall EXCEPT
           !.op = "publish", !.req = notification, !.given = given,
           !.strategy = IF given = "undefined" THEN "besteffort" ELSE given,
           !.defined = defined,
           !.handlers = IF defined THEN notificationsState[notification.token]
                        ELSE <<>>]
  IN IF StackOverflows(notification.token, 1)
     THEN [started EXCEPT !.phase = "done", !.value = StackOverflow]
     ELSE [started EXCEPT !.cur = notification, !.phase = "down",
                          !.chain = chain, !.resolved = chain]

\* The payload the caller of the next call passes.
NextPayload == IF parked.op = "none" THEN CallerPayload ELSE OtherPayload

Invoke ==
  /\ bus = "ready"
  /\ CallFree
  /\ \E token \in RequestKeys \cap container.messages :
       call' = InvokeCall(Message(token, NextPayload))
  /\ UNCHANGED <<container, bus, constructError, registry, parked, builds>>

\* A publish that creates the list of a key it does not find.
PublishRegistering ==
  /\ bus = "ready"
  /\ CallFree
  /\ \E token \in NotificationKeys \cap container.messages,
        given \in StrategyArguments :
       /\ call' = PublishCall(Message(token, NextPayload), given)
       /\ notificationsState' =
            IF token \in DOMAIN notificationsState THEN notificationsState
            ELSE notificationsState @@ (token :> <<>>)
  /\ UNCHANGED <<container, bus, constructError, requestsState,
                 middlewareState, parked, builds>>

Publish ==
  /\ bus = "ready"
  /\ CallFree
  /\ \E token \in NotificationKeys \cap container.messages,
        given \in StrategyArguments :
       call' = PublishCall(Message(token, NextPayload), given)
  /\ UNCHANGED <<container, bus, constructError, registry, parked, builds>>

(***************************************************************************)
(* The pipeline: lines 176-178                                             *)
(***************************************************************************)
\* A pipeline that goes on to the next step although the middleware
\* returned without calling next.
MiddlewareHandleAlwaysNext(c, b) ==
  LET m == c.chain[c.depth + 1]
      entered == [c EXCEPT !.behav = Append(@, b),
                           !.log = Append(@, Event("before", m, c.cur))]
  IN CASE b = "throw" -> [entered EXCEPT !.phase = "up",
                                         !.value = MiddlewareError(m)]
       [] b = "swap" -> [entered EXCEPT
                           !.depth = @ + 1,
                           !.cur = Message(c.cur.token, SwappedPayload)]
       [] OTHER -> [entered EXCEPT !.depth = @ + 1]

\* pipeline(request) calls middleware.handle(request, next) of the next
\* middleware of the chain; what the middleware does is its own choice.
MiddlewareHandle(c, b) ==
  LET m == c.chain[c.depth + 1]
      entered == [c EXCEPT !.behav = Append(@, b),
                           !.log = Append(@, Event("before", m, c.cur))]
  IN CASE b = "short" -> [entered EXCEPT !.phase = "up",
                                         !.value = ShortValue(m)]
       [] b = "throw" -> [entered EXCEPT !.phase = "up",
                                         !.value = MiddlewareError(m)]
       [] b = "swap" -> [entered EXCEPT
                           !.depth = @ + 1,
                           !.cur = Message(c.cur.token, SwappedPayload)]
       [] OTHER -> [entered EXCEPT !.depth = @ + 1]

\* A continuation that calls the middleware without returning its promise:
\* the value of the inner steps is lost.
MiddlewareResumeWithoutResult(c) ==
  LET m == c.chain[c.depth]
  IN IF IsFailure(c.value) THEN [c EXCEPT !.depth = @ - 1]
     ELSE [c EXCEPT !.depth = @ - 1,
                    !.log = Append(@, Event("after", m, NoMessage)),
                    !.value = Void]

\* A continuation that runs the middleware's after-phase whatever next
\* settled with.
MiddlewareResumeAlways(c) ==
  LET m == c.chain[c.depth]
  IN [c EXCEPT
        !.depth = @ - 1,
        !.log = Append(@, Event("after", m, NoMessage)),
        !.value = IF c.behav[c.depth] = "wrap" /\ ~IsFailure(@)
                  THEN [@ EXCEPT !.wraps = Append(@, m)] ELSE @]

\* next has settled: the innermost waiting middleware resumes.  A failure
\* passes through it; a value is followed by its after-phase.
MiddlewareResume(c) ==
  LET m == c.chain[c.depth]
  IN IF IsFailure(c.value) THEN [c EXCEPT !.depth = @ - 1]
     ELSE [c EXCEPT
             !.depth = @ - 1,
             !.log = Append(@, Event("after", m, NoMessage)),
             !.value = IF c.behav[c.depth] = "wrap"
                       THEN [@ EXCEPT !.wraps = Append(@, m)] ELSE @]

MiddlewareEnter ==
  /\ call.phase = "down"
  /\ call.depth < Len(call.chain)
  /\ \E b \in Behaviours : call' = MiddlewareHandle(call, b)
  /\ UNCHANGED <<container, bus, constructError, registry, parked, builds>>

MiddlewareExit ==
  /\ call.phase = "up"
  /\ call.depth > 0
  /\ call' = MiddlewareResume(call)
  /\ UNCHANGED <<container, bus, constructError, registry, parked, builds>>

\* A publish that awaits its pipeline without returning what it settled
\* with.
CallReturnWithoutValue ==
  /\ call.phase = "up"
  /\ call.depth = 0
  /\ call' = [call EXCEPT
                !.phase = "done",
                !.value = IF call.op = "publish" /\ ~IsFailure(@)
                          THEN Void ELSE @]
  /\ UNCHANGED <<container, bus, constructError, registry, parked, builds>>

\* The outermost continuation has settled: the caller's promise settles.
CallReturn ==
  /\ call.phase = "up"
  /\ call.depth = 0
  /\ call' = [call EXCEPT !.phase = "done"]
  /\ UNCHANGED <<container, bus, constructError, registry, parked, builds>>

\* The event loop turns from the call in progress to the other one: the
\* two calls take their steps in any order.
Switch ==
  /\ bus = "ready"
  /\ call' = parked
  /\ parked' = call
  /\ UNCHANGED <<container, bus, constructError, registry, builds>>

(***************************************************************************)
(* The terminal step of invoke: lines 271-273                              *)
(***************************************************************************)
\* A terminal step that hands the handler the request kept in a slot that
\* all calls share: the one of the call that came last.
ExecuteRequestHandlerSharedSlot(c) ==
  LET request == IF parked.cur # NoMessage THEN parked.cur ELSE c.cur
  IN [c EXCEPT !.phase = "terminal", !.inflight = {1}, !.cur = request,
               !.log = Append(@, Event("start", c.handler, request))]

\* A terminal step that hands the request handler the payload alone, as
\* the notification handlers get it.
ExecuteRequestHandlerPayloadOnly(c) ==
  [c EXCEPT !.phase = "terminal", !.inflight = {1},
            !.log = Append(@, Event("start", c.handler,
                                    Message("", c.cur.payload)))]

\* handler.handle(request) with the request the pipeline handed down.
ExecuteRequestHandler(c) ==
  [c EXCEPT !.phase = "terminal", !.inflight = {1},
            !.log = Append(@, Event("start", c.handler, c.cur))]

\* The request handler returns a value or fails.
RequestHandlerSettled(c, ok) ==
  [c EXCEPT
     !.phase = "up", !.inflight = {},
     !.log = Append(@, Event(IF ok THEN "settled" ELSE "failed", c.handler,
                             NoMessage)),
     !.value = IF ok THEN HandlerResult(c.handler, c.cur)
               ELSE HandlerError(c.handler)]

(***************************************************************************)
(* The terminal step of publish: the three strategies                      *)
(***************************************************************************)
\* A terminal step that hands the handlers the payload of the request that
\* the innermost middleware passed to next.
StartOfForwarded(c, i) ==
  Event("start", c.handlers[i], Message("", c.cur.payload))

\* A notification handler is called with the payload alone.
StartOf(c, i) == Event("start", c.handlers[i], Message("", c.req.payload))

SettledOf(c, i, ok) ==
  Event(IF ok THEN "settled" ELSE "failed", c.handlers[i], NoMessage)

\* handlers.map(async handler => ...): every handler is called in turn; a
\* handler that throws while it is called has failed at once, inside the
\* async callback, and the map goes on.
RECURSIVE StartAll(_, _)
StartAll(c, i) ==
  IF i > Len(c.handlers) THEN <<>>
  ELSE <<StartOf(c, i)>>
         \o (IF i \in c.sync THEN <<SettledOf(c, i, FALSE)>> ELSE <<>>)
         \o StartAll(c, i + 1)

\* The failures of the handlers that threw while they were called.
RECURSIVE SyncErrors(_, _)
SyncErrors(c, i) ==
  IF i > Len(c.handlers) THEN <<>>
  ELSE (IF i \in c.sync THEN <<HandlerError(c.handlers[i])>> ELSE <<>>)
         \o SyncErrors(c, i + 1)

\* Which handlers throw while they are called is the handlers' choice; it
\* is observable where all handlers are called in one go.
SyncChoices(c) ==
  IF c.strategy \in {"parallel", "besteffort"} /\ c.defined
  THEN SUBSET (1..Len(c.handlers))
  ELSE {{}}

\* A loop that calls every handler without waiting for the one before.
ExecuteNotificationHandlersUnawaited(c) ==
  IF ~c.defined THEN [c EXCEPT !.phase = "up", !.value = Void]
  ELSE [c EXCEPT !.phase = "terminal", !.inflight = {1},
                 !.resolved = @ \o c.handlers,
                 !.log = @ \o StartAll(c, 1)]

\* Lines 187-198: the loop resolves and calls the first handler and waits.
ExecuteNotificationHandlersSequentially(c) ==
  IF ~c.defined THEN [c EXCEPT !.phase = "up", !.value = Void]
  ELSE [c EXCEPT !.phase = "terminal", !.inflight = {1},
                 !.resolved = Append(@, c.handlers[1]),
                 !.log = Append(@, StartOf(c, 1))]

\* A loop that swallows a handler's failure and goes on.
SequentialHandlerSettledCarryingOn(c, i, ok) ==
  LET settled == [c EXCEPT !.inflight = {},
                           !.log = Append(@, SettledOf(c, i, ok))]
  IN IF i < Len(c.handlers)
     THEN [settled EXCEPT !.inflight = {i + 1},
                          !.resolved = Append(@, c.handlers[i + 1]),
                          !.log = Append(@, StartOf(c, i + 1))]
     ELSE [settled EXCEPT !.phase = "up", !.value = Void]

\* The awaited handler settled: a failure leaves the loop, otherwise the
\* loop goes on to the next handler or ends.
SequentialHandlerSettled(c, i, ok) ==
  LET settled == [c EXCEPT !.inflight = {},
                           !.log = Append(@, SettledOf(c, i, ok))]
  IN IF ~ok
     THEN [settled EXCEPT !.phase = "up",
                          !.value = HandlerError(c.handlers[i])]
     ELSE IF i < Len(c.handlers)
          THEN [settled EXCEPT !.inflight = {i + 1},
                               !.resolved = Append(@, c.handlers[i + 1]),
                               !.log = Append(@, StartOf(c, i + 1))]
          ELSE [settled EXCEPT !.phase = "up", !.value = Void]

\* A map whose callback is not async: a handler that throws while it is
\* called ends the map, and the handlers after it are never called.
RECURSIVE StartUntilThrow(_, _)
StartUntilThrow(c, i) ==
  IF i > Len(c.handlers) THEN <<>>
  ELSE IF i \in c.sync THEN <<StartOf(c, i), SettledOf(c, i, FALSE)>>
       ELSE <<StartOf(c, i)>> \o StartUntilThrow(c, i + 1)

ExecuteNotificationHandlersInParallelSyncMap(c) ==
  IF ~c.defined THEN [c EXCEPT !.phase = "up", !.value = Void]
  ELSE LET started == [c EXCEPT !.phase = "terminal",
                                !.inflight = (1..Len(c.handlers)) \ c.sync,
                                !.resolved = @ \o c.handlers,
                                !.log = @ \o StartUntilThrow(c, 1)]
       IN IF c.sync = {} THEN started
          ELSE [started EXCEPT
                  !.phase = "up",
                  !.inflight = {i \in 1..Len(c.handlers) :
                                  \A j \in c.sync : i < j},
                  !.value = SyncErrors(c, 1)[1]]

\* Lines 206-220: handlers.map calls every handler, Promise.all waits.
ExecuteNotificationHandlersInParallel(c) ==
  IF ~c.defined THEN [c EXCEPT !.phase = "up", !.value = Void]
  ELSE LET started == [c EXCEPT !.phase = "terminal",
                                !.inflight = (1..Len(c.handlers)) \ c.sync,
                                !.resolved = @ \o c.handlers,
                                !.log = @ \o StartAll(c, 1)]
       IN IF c.sync = {} THEN started
          ELSE [started EXCEPT !.phase = "up",
                               !.value = SyncErrors(c, 1)[1]]

\* A wait in which a later rejection replaces the one already reported.
ParallelHandlerSettledLastWins(c, i, ok) ==
  LET settled == [c EXCEPT !.inflight = @ \ {i},
                           !.log = Append(@, SettledOf(c, i, ok))]
  IN IF ~ok
     THEN [settled EXCEPT
             !.phase = IF c.phase = "terminal" THEN "up" ELSE @,
             !.value = HandlerError(c.handlers[i])]
     ELSE IF c.phase = "terminal" /\ settled.inflight = {}
          THEN [settled EXCEPT !.phase = "up", !.value = Void]
          ELSE settled

\* Promise.all rejects with the first rejection and resolves when all have
\* resolved; handlers still running after a rejection settle unobserved.
ParallelHandlerSettled(c, i, ok) ==
  LET settled == [c EXCEPT !.inflight = @ \ {i},
                           !.log = Append(@, SettledOf(c, i, ok))]
  IN IF c.phase # "terminal" THEN settled
     ELSE IF ~ok
          THEN [settled EXCEPT !.phase = "up",
                               !.value = HandlerError(c.handlers[i])]
          ELSE IF settled.inflight = {}
               THEN [settled EXCEPT !.phase = "up", !.value = Void]
               ELSE settled

\* Best effort that calls the first handler only.
ExecuteNotificationHandlersFirstOnly(c) ==
  IF ~c.defined \/ Len(c.handlers) = 0
  THEN [c EXCEPT !.phase = "up", !.value = ErrorList(<<>>)]
  ELSE [c EXCEPT !.phase = "terminal", !.inflight = {1},
                 !.resolved = Append(@, c.handlers[1]),
                 !.log = Append(@, StartOf(c, 1))]

\* Best effort that calls a handler once however often the list names it.
ExecuteNotificationHandlersBestEffortDistinct(c) ==
  IF ~c.defined \/ Len(c.handlers) = 0
  THEN [c EXCEPT !.phase = "up", !.value = ErrorList(<<>>)]
  ELSE LET d == [c EXCEPT !.handlers = Dedupe(@),
                          !.sync = @ \cap (1..Len(Dedupe(c.handlers)))]
           started == [d EXCEPT !.phase = "terminal",
                                !.inflight = (1..Len(d.handlers)) \ d.sync,
                                !.errors = SyncErrors(d, 1),
                                !.resolved = @ \o d.handlers,
                                !.log = @ \o StartAll(d, 1)]
       IN IF started.inflight # {} THEN started
          ELSE [started EXCEPT !.phase = "up",
                               !.value = ErrorList(started.errors)]

\* Lines 228-252: as parallel, with each handler's failure caught.
ExecuteNotificationHandlersBestEffort(c) ==
  IF ~c.defined \/ Len(c.handlers) = 0
  THEN [c EXCEPT !.phase = "up", !.value = ErrorList(<<>>)]
  ELSE LET started == [c EXCEPT !.phase = "terminal",
                                !.inflight = (1..Len(c.handlers)) \ c.sync,
                                !.errors = SyncErrors(c, 1),
                                !.resolved = @ \o c.handlers,
                                !.log = @ \o StartAll(c, 1)]
       IN IF started.inflight # {} THEN started
          ELSE [started EXCEPT !.phase = "up",
                               !.value = ErrorList(started.errors)]

\* Best effort without the try/catch around each handler.
BestEffortHandlerSettledUncaught(c, i, ok) ==
  LET settled == [c EXCEPT !.inflight = @ \ {i},
                           !.log = Append(@, SettledOf(c, i, ok))]
  IN IF c.phase # "terminal" THEN settled
     ELSE IF ~ok
          THEN [settled EXCEPT !.phase = "up",
                               !.value = HandlerError(c.handlers[i])]
          ELSE IF settled.inflight = {}
               THEN [settled EXCEPT !.phase = "up",
                                    !.value = ErrorList(c.errors)]
               ELSE settled

\* Best effort that resolves as soon as one handler has settled.
BestEffortHandlerSettledFirst(c, i, ok) ==
  LET errors == IF ok THEN c.errors
                ELSE Append(c.errors, HandlerError(c.handlers[i]))
      settled == [c EXCEPT !.inflight = @ \ {i}, !.errors = errors,
                           !.log = Append(@, SettledOf(c, i, ok))]
  IN IF c.phase = "terminal"
     THEN [settled EXCEPT !.phase = "up", !.value = ErrorList(errors)]
     ELSE settled

BestEffortHandlerSettled(c, i, ok) ==
  LET errors == IF ok THEN c.errors
                ELSE Append(c.errors, HandlerError(c.handlers[i]))
      settled == [c EXCEPT !.inflight = @ \ {i}, !.errors = errors,
                           !.log = Append(@, SettledOf(c, i, ok))]
  IN IF settled.inflight = {}
     THEN [settled EXCEPT !.phase = "up", !.value = ErrorList(errors)]
     ELSE settled

\* A switch that refuses a notification nobody handles.
PublishTerminalRequiringHandlers(c) ==
  IF ~c.defined
  THEN [c EXCEPT !.phase = "up",
                 !.value = Failure("publish",
                                   <<"No handlers for ", c.req.token>>)]
  ELSE CASE c.strategy = "parallel" ->
              ExecuteNotificationHandlersInParallel(c)
         [] c.strategy = "sequential" ->
              ExecuteNotificationHandlersSequentially(c)
         [] c.strategy = "besteffort" ->
              ExecuteNotificationHandlersBestEffort(c)
         [] OTHER ->
              [c EXCEPT !.phase = "up",
                        !.value = Failure("publish",
                                          <<"Invalid publish strategy: ",
                                            c.strategy>>)]

\* Lines 290-310: the switch on the strategy.
PublishTerminal(c) ==
  CASE c.strategy = "parallel" -> ExecuteNotificationHandlersInParallel(c)
    [] c.strategy = "sequential" -> ExecuteNotificationHandlersSequentially(c)
    [] c.strategy = "besteffort" -> ExecuteNotificationHandlersBestEffort(c)
    [] OTHER ->
         [c EXCEPT !.phase = "up",
                   !.value = Failure("publish",
                                     <<"Invalid publish strategy: ",
                                       c.strategy>>)]

InvokeHandler ==
  /\ AtTerminal
  /\ call.op = "invoke"
  /\ call' = ExecuteRequestHandler(call)
  /\ UNCHANGED <<container, bus, constructError, registry, parked, builds>>

RequestHandlerSettles ==
  /\ call.op = "invoke"
  /\ call.phase = "terminal"
  /\ \E ok \in BOOLEAN : call' = RequestHandlerSettled(call, ok)
  /\ UNCHANGED <<container, bus, constructError, registry, parked, builds>>

PublishHandlers ==
  /\ AtTerminal
  /\ call.op = "publish"
  /\ \E sync \in SyncChoices(call) :
       call' = PublishTerminal([call EXCEPT !.sync = sync])
  /\ UNCHANGED <<container, bus, constructError, registry, parked, builds>>

SequentialHandlerSettles ==
  /\ call.op = "publish"
  /\ call.strategy = "sequential"
  /\ \E i \in call.inflight, ok \in BOOLEAN :
       call' = SequentialHandlerSettled(call, i, ok)
  /\ UNCHANGED <<container, bus, constructError, registry, parked, builds>>

ParallelHandlerSettles ==
  /\ call.op = "publish"
  /\ call.strategy = "parallel"
  /\ \E i \in call.inflight, ok \in BOOLEAN :
       call' = ParallelHandlerSettled(call, i, ok)
  /\ UNCHANGED <<container, bus, constructError, registry, parked, builds>>

BestEffortHandlerSettles ==
  /\ call.op = "publish"
  /\ call.strategy = "besteffort"
  /\ \E i \in call.inflight, ok \in BOOLEAN :
       call' = BestEffortHandlerSettled(call, i, ok)
  /\ UNCHANGED <<container, bus, constructError, registry, parked, builds>>

Next ==
  \/ Construct
  \/ Invoke
  \/ Publish
  \/ MiddlewareEnter
  \/ MiddlewareExit
  \/ InvokeHandler
  \/ RequestHandlerSettles
  \/ PublishHandlers
  \/ SequentialHandlerSettles
  \/ ParallelHandlerSettles
  \/ BestEffortHandlerSettles
  \/ CallReturn

Spec == Init /\ [][Next]_vars
SpecBuild == InitBuild /\ [][Next]_vars
SpecHierarchy == InitHierarchy /\ [][Next]_vars
SpecFanout == InitFanout /\ [][Next]_vars

\* Two calls at a time on one dispatcher.
NextConcurrent == Next \/ Switch
SpecConcurrent == InitConcurrent /\ [][NextConcurrent]_vars

\* The calls, and further runs of the factory between them.
NextRebuild == Next \/ Reconstruct
SpecRebuild == InitRebuild /\ [][NextRebuild]_vars

\* Calls of the same types one after the other and two at a time.
SpecRepeat == InitRepeat /\ [][NextConcurrent]_vars

\* Handlers bound to several types, or to one type more than once.
SpecListing == InitListing /\ [][Next]_vars

(***************************************************************************)
(* Vocabulary of the properties                                            *)
(***************************************************************************)
IsPrefix(a, b) == Len(a) <= Len(b) /\ a = SubSeq(b, 1, Len(a))

\* A token, the tokens it implements, and so on upwards.
RECURSIVE AncestorsOf(_)
AncestorsOf(token) ==
  {token} \cup UNION {AncestorsOf(Implements[token][i]) :
                        i \in 1..Len(Implements[token])}

\* The middleware binding m names the type or one of its ancestors.
AppliesTo(m, token) ==
  /\ m \in Range(container.middlewares)
  /\ Range(container.generics[m]) \cap AncestorsOf(token) # {}

\* The notification handlers bound to the type, in registration order.
RegisteredHandlers(token) ==
  SelectSeq(container.notificationHandlers,
            LAMBDA h : token \in Range(container.generics[h]))

\* The request handlers bound to the type.
RequestHandlersFor(token) ==
  {h \in Range(container.commandHandlers \o container.queryHandlers) :
     Len(container.generics[h]) > 0 /\ container.generics[h][1] = token}

Kind(e) == <<e.ev, e.who>>
Kinds(log) == [i \in 1..Len(log) |-> Kind(log[i])]
IsTerminalEvent(e) == e.ev \in {"start", "settled", "failed"}
TerminalEvents(log) == SelectSeq(log, IsTerminalEvent)
Starts(log) == SelectSeq(log, LAMBDA e : e.ev = "start")
Happened(ev, who) == \E i \in 1..Len(call.log) : Kind(call.log[i]) = <<ev, who>>
Entered(m) == Happened("before", m)

\* The behaviour of a middleware the call has entered.
BehaviourOf(m) ==
  call.behav[CHOOSE i \in 1..Len(call.behav) : call.chain[i] = m]
CalledNextIfEntered(m) ==
  Entered(m) => m \in Range(call.chain) /\ CallsNext(BehaviourOf(m))

\* Every middleware of the pipeline was entered and called next, so the
\* terminal step was reached.
ReachedTerminal ==
  /\ call.op # "none"
  /\ call.cur # NoMessage
  /\ call.phase \in {"terminal", "up", "done"}
  /\ Len(call.behav) = Len(call.chain)
  /\ \A i \in 1..Len(call.behav) : CallsNext(call.behav[i])

\* The terminal step has settled.
TerminalSettled == ReachedTerminal /\ call.phase \in {"up", "done"}

Succeeded == call.phase = "done" /\ ~IsFailure(call.value)

(***************************************************************************)
(* C1  Middleware nesting is LIFO                                          *)
(***************************************************************************)
NestedLog(m1, m2) ==
  LET kinds == Kinds(call.log)
      terminal == Kinds(TerminalEvents(call.log))
      observed ==
        SelectSeq(kinds, LAMBDA k : k[2] \in {m1, m2}
                                      \/ k[1] \in {"start", "settled", "failed"})
      nested == <<<<"before", m1>>, <<"before", m2>>>> \o terminal
                  \o <<<<"after", m2>>, <<"after", m1>>>>
  IN /\ IsPrefix(observed, nested)
     /\ Succeeded => observed = nested

\* C1: for two middleware that both apply to the dispatched message's type
\* (through the type itself or a base kind) and both call next, the one
\* earlier in MiddleWareOrder being M1: the events of the call are M1's
\* before-phase, M2's before-phase, the terminal step's handler events,
\* M2's after-phase, M1's after-phase, in this order, at every moment of the
\* call, and all of them once the call has succeeded.
C1_LifoNesting ==
  \A i, j \in 1..Len(container.middlewareOrder) :
    LET m1 == container.middlewareOrder[i]
        m2 == container.middlewareOrder[j]
    IN (/\ call.op # "none"
        /\ i < j
        /\ AppliesTo(m1, call.req.token)
        /\ AppliesTo(m2, call.req.token)
        /\ CalledNextIfEntered(m1)
        /\ CalledNextIfEntered(m2))
       => NestedLog(m1, m2)

\* A publish went through a middleware bound to the base kind and, inside
\* it, one bound to the concrete type, reached two handlers and succeeded.
C1_Witness ==
  /\ Succeeded
  /\ call.op = "publish"
  /\ Len(call.chain) = 2
  /\ call.behav = <<"pass", "pass">>
  /\ container.generics[call.chain[1]] = <<INotificationToken>>
  /\ container.generics[call.chain[2]] = <<"Ping">>
  /\ Len(Starts(call.log)) = 2
  /\ Happened("after", call.chain[1])

(***************************************************************************)
(* C2  Middleware bound to a base kind                                     *)
(***************************************************************************)
BaseKinds == {INotificationToken, ICommandToken, IQueryToken}

\* C2: when a dispatch has reached its terminal step, every middleware that
\* is bound to a base kind of the message's type has been entered.
C2_BaseKindMiddlewareInvoked ==
  \A m \in Range(container.middlewares) :
    (/\ ReachedTerminal
     /\ Range(container.generics[m]) \cap BaseKinds
          \cap AncestorsOf(call.req.token) # {})
    => Entered(m)

(***************************************************************************)
(* C3  invoke returns the handler's value                                  *)
(***************************************************************************)
AllPass == \A i \in 1..Len(call.behav) : call.behav[i] = "pass"

\* C3: an invoke of a type with a registered handler, through middleware
\* that all pass the request on and return next's result, ends with the
\* value that the type's one handler returned for the caller's message (or
\* with that handler's failure, if the handler failed).
C3_InvokeReturnsHandlerResult ==
  (/\ call.op = "invoke"
   /\ call.phase = "done"
   /\ RequestHandlersFor(call.req.token) # {}
   /\ AllPass)
  => \E h \in RequestHandlersFor(call.req.token) :
       /\ RequestHandlersFor(call.req.token) = {h}
       /\ call.value = IF Happened("failed", h) THEN HandlerError(h)
                       ELSE HandlerResult(h, call.req)

\* A query went through a passing middleware and its handler returned.
C3_Witness ==
  /\ call.op = "invoke"
  /\ call.phase = "done"
  /\ call.req.token = "GetUser"
  /\ Len(call.chain) >= 1
  /\ Len(call.behav) = Len(call.chain)
  /\ AllPass
  /\ call.value = HandlerResult("QH", call.req)

(***************************************************************************)
(* C4  invoke without a handler                                            *)
(***************************************************************************)
NotFound(token) ==
  Failure("invoke", <<"Request handler not found for Request ", token>>)

\* C4: an invoke of a command or query type to which no handler is bound
\* has failed with the handler-not-found error that names the type's key.
C4_HandlerNotFound ==
  (call.op = "invoke" /\ RequestHandlersFor(call.req.token) = {})
  => call.phase = "done" /\ call.value = NotFound(call.req.token)

\* A query without a handler was invoked on a bus that has a command handler.
C4_Witness ==
  /\ call.op = "invoke"
  /\ call.req.token = "GetUser"
  /\ RequestHandlersFor("GetUser") = {}
  /\ RequestHandlersFor("CreateUser") # {}
  /\ call.value = NotFound("GetUser")

(***************************************************************************)
(* C5  No partial work before handler-not-found                            *)
(***************************************************************************)
\* C5: an invoke of a type without a handler has entered no middleware,
\* started no handler and resolved nothing from the container.
C5_NoPartialWork ==
  (call.op = "invoke" /\ RequestHandlersFor(call.req.token) = {})
  => /\ call.log = <<>>
     /\ call.resolved = <<>>
     /\ call.behav = <<>>
     /\ call.inflight = {}
     /\ IsFailure(call.value)

\* The failed invoke was of a type whose base kind has a middleware bound
\* that the order lists.
C5_Witness ==
  /\ call.op = "invoke"
  /\ call.phase = "done"
  /\ RequestHandlersFor(call.req.token) = {}
  /\ \E m \in Range(container.middlewareOrder) :
       /\ AppliesTo(m, call.req.token)
       /\ ICommandToken \in Range(container.generics[m])

(***************************************************************************)
(* C6  Sequential publish: one handler at a time, in registration order    *)
(***************************************************************************)
IsSequential == call.op = "publish" /\ call.strategy = "sequential"
IsBestEffort == call.op = "publish" /\ call.strategy = "besteffort"

\* C6: under the sequential strategy the handler events of a publish are
\* start H1, end of H1, start H2, end of H2, ... for the handlers H1..Hn
\* bound to the notification's type in registration order: no handler is
\* started before its predecessor has completed, and a publish that
\* succeeded has run all of them.
C6_SequentialOrder ==
  IsSequential =>
    LET H == RegisteredHandlers(call.req.token)
        T == Kinds(TerminalEvents(call.log))
    IN /\ Len(T) <= 2 * Len(H)
       /\ \A k \in 1..Len(T) :
            IF k % 2 = 1
            THEN T[k] = <<"start", H[(k + 1) \div 2]>>
            ELSE T[k][2] = H[k \div 2] /\ T[k][1] \in {"settled", "failed"}
       /\ (Succeeded /\ ReachedTerminal =>
             /\ Len(T) = 2 * Len(H)
             /\ \A k \in 1..Len(H) : T[2 * k] = <<"settled", H[k]>>)

\* A sequential publish to two handlers has succeeded.
C6_Witness ==
  /\ IsSequential
  /\ Succeeded
  /\ Len(RegisteredHandlers(call.req.token)) = 2
  /\ Len(Starts(call.log)) = 2

(***************************************************************************)
(* C7  Sequential publish: the first failure ends it                       *)
(***************************************************************************)
\* C7: under the sequential strategy, once handler Hk has failed, the
\* handlers before it have completed, no handler after it is started, and
\* the failure that travels out through the middleware and that the
\* publisher receives is Hk's.
C7_SequentialFailFast ==
  IsSequential =>
    LET H == RegisteredHandlers(call.req.token)
    IN \A k \in 1..Len(H) :
         Happened("failed", H[k]) =>
           /\ \A j \in 1..Len(H) : j > k => ~Happened("start", H[j])
           /\ \A j \in 1..Len(H) : j < k => Happened("settled", H[j])
           /\ call.phase \in {"up", "done"}
           /\ call.value = HandlerError(H[k])

\* The first of two handlers failed under a middleware; the publish is over.
C7_Witness ==
  /\ IsSequential
  /\ call.phase = "done"
  /\ Len(call.chain) >= 1
  /\ Len(RegisteredHandlers(call.req.token)) = 2
  /\ Happened("failed", RegisteredHandlers(call.req.token)[1])

(***************************************************************************)
(* C8  Best effort invokes every handler                                   *)
(***************************************************************************)
ExpectedStarts ==
  LET H == RegisteredHandlers(call.req.token)
  IN [i \in 1..Len(H) |->
        Event("start", H[i], Message("", call.req.payload))]

\* C8: once a best-effort publish has reached its terminal step, every
\* handler bound to the notification's type has been called with the
\* notification's payload, and this stays so whichever handlers fail.
C8_BestEffortInvokesAll ==
  (IsBestEffort /\ ReachedTerminal) => Starts(call.log) = ExpectedStarts

\* The first handler registered failed, the second completed.
C8_Witness ==
  /\ IsBestEffort
  /\ call.given = "besteffort"
  /\ call.phase = "done"
  /\ Len(RegisteredHandlers(call.req.token)) = 2
  /\ Happened("failed", RegisteredHandlers(call.req.token)[1])
  /\ Happened("settled", RegisteredHandlers(call.req.token)[2])

(***************************************************************************)
(* C9  Best effort collects failures and never fails                       *)
(***************************************************************************)
\* The list holds one entry for each handler that failed and nothing else.
CollectsTheFailures(errs) ==
  LET H == RegisteredHandlers(call.req.token)
  IN /\ Len(errs) <= Len(H)
     /\ \A i \in 1..Len(errs) : \E h \in Range(H) : errs[i] = HandlerError(h)
     /\ \A h \in Range(H) :
          Cardinality({i \in 1..Len(errs) : errs[i] = HandlerError(h)})
            = IF Happened("failed", h) THEN 1 ELSE 0

\* C9: the terminal step of a best-effort publish resolves with a list, not
\* with a failure, and the list holds exactly one entry for each handler
\* that failed.
C9_BestEffortCollects ==
  (IsBestEffort /\ TerminalSettled) =>
    /\ ~IsFailure(call.value)
    /\ call.value.tag = "errors"
    /\ call.errors = call.value.errs
    /\ CollectsTheFailures(call.value.errs)

\* Both handlers failed and the publish returned two failures.
C9_Witness ==
  /\ IsBestEffort
  /\ call.given = "besteffort"
  /\ call.phase = "done"
  /\ Len(call.value.errs) = 2
  /\ \A h \in Range(RegisteredHandlers(call.req.token)) : Happened("failed", h)

IsParallel == call.op = "publish" /\ call.strategy = "parallel"

IndexOf(h) == CHOOSE i \in 1..Len(call.handlers) : call.handlers[i] = h
LastStart ==
  CHOOSE p \in 1..Len(call.log) :
    /\ call.log[p].ev = "start"
    /\ \A q \in 1..Len(call.log) : call.log[q].ev = "start" => q <= p

\* C11: once a parallel publish has reached its terminal step, every handler
\* bound to the notification's type has been called, in registration order,
\* also after a handler that threw while it was called; and no handler's
\* promise has settled before the last handler was called.
C11_ParallelStartsAll ==
  (IsParallel /\ ReachedTerminal) =>
    /\ Starts(call.log) = ExpectedStarts
    /\ \A p \in 1..Len(call.log) :
         (/\ call.log[p].ev \in {"settled", "failed"}
          /\ IndexOf(call.log[p].who) \notin call.sync)
         => p > LastStart

\* The first of two handlers threw while it was called; both were called.
C11_Witness ==
  /\ IsParallel
  /\ call.phase = "done"
  /\ call.sync = {1}
  /\ Len(call.handlers) = 2
  /\ Len(Starts(call.log)) = 2
  /\ Happened("settled", call.handlers[2])

(***************************************************************************)
(* C12  Parallel publish fails with the first failure only                 *)
(***************************************************************************)
Failures(log) == SelectSeq(log, LAMBDA e : e.ev = "failed")

\* C12: once a handler of a parallel publish has failed, the failure that
\* travels out and that the publisher receives is the one of the handler
\* that failed first; the failures of the other handlers are not collected.
C12_ParallelFirstFailure ==
  (IsParallel /\ Failures(call.log) # <<>>) =>
    /\ call.phase \in {"up", "done"}
    /\ call.value = HandlerError(Failures(call.log)[1].who)
    /\ call.value.errs = <<>>
    /\ call.errors = <<>>

\* Both handlers failed, one after the other; the publish is over.
C12_Witness ==
  /\ IsParallel
  /\ call.phase = "done"
  /\ call.sync = {}
  /\ Len(Failures(call.log)) = 2
  /\ call.value = HandlerError(Failures(call.log)[1].who)

(***************************************************************************)
(* C13  Publishing what nobody handles is not an error                     *)
(***************************************************************************)
NothingRegistered ==
  /\ call.op = "publish"
  /\ call.strategy \in Strategies
  /\ RegisteredHandlers(call.req.token) = <<>>

\* What the terminal step of a publish resolves with when no handler is
\* registered: best-effort's empty list, nothing under the other two.
EmptyResolution ==
  IF call.strategy = "besteffort" THEN ErrorList(<<>>) ELSE Void

\* C13: a publish of a notification whose type has no registered handler,
\* under any of the three strategies, never waits in its terminal step and
\* never fails there: no handler is called, and the value travelling out is
\* the empty failure list under best-effort and no value under sequential
\* and parallel; with middleware that return next's result the publisher
\* receives exactly that.
C13_NoHandlersNoError ==
  (NothingRegistered /\ ReachedTerminal) =>
    /\ call.phase \in {"up", "done"}
    /\ Starts(call.log) = <<>>
    /\ ~IsFailure(call.value)
    /\ [call.value EXCEPT !.wraps = <<>>] = EmptyResolution
    /\ AllPass => call.value = EmptyResolution

\* A best-effort publish through a middleware, nobody handling it, is over.
C13_Witness ==
  /\ NothingRegistered
  /\ call.strategy = "besteffort"
  /\ call.phase = "done"
  /\ Len(call.chain) > 0
  /\ AllPass
  /\ call.value = ErrorList(<<>>)

(***************************************************************************)
(* Vocabulary of the construction properties                               *)
(***************************************************************************)
RequestHandlers == container.commandHandlers \o container.queryHandlers
LacksGenerics(k) == Len(container.generics[k]) = 0

\* The first token of a sequence that satisfies a test.
First(seq, Test(_)) ==
  seq[CHOOSE i \in 1..Len(seq) :
        Test(seq[i]) /\ \A j \in 1..(i - 1) : ~Test(seq[j])]
Some(seq, Test(_)) == \E i \in 1..Len(seq) : Test(seq[i])

\* The request handler at position j is bound to the key of an earlier one.
DuplicateAt(j) ==
  /\ ~LacksGenerics(RequestHandlers[j])
  /\ \E i \in 1..(j - 1) :
       /\ ~LacksGenerics(RequestHandlers[i])
       /\ container.generics[RequestHandlers[i]][1]
            = container.generics[RequestHandlers[j]][1]
HasDuplicate == \E j \in 1..Len(RequestHandlers) : DuplicateAt(j)
FirstDuplicate ==
  CHOOSE j \in 1..Len(RequestHandlers) :
    DuplicateAt(j) /\ \A k \in 1..(j - 1) : ~DuplicateAt(k)

\* The checks the factory runs before it looks at the handlers pass.
OrderLongEnough ==
  Len(container.middlewares) <= Len(container.middlewareOrder)
NoDispatcher ==
  /\ bus # "ready"
  /\ call = IdleCall
  /\ parked = IdleCall
  /\ registry = <<EmptyTable, EmptyTable, EmptyTable>>

MissingFromOrder ==
  \E m \in Range(container.middlewares) :
    m \notin Range(container.middlewareOrder)

\* C15: whenever a bound middleware does not appear in MiddleWareOrder,
\* construction fails, however long the order is.
C15_MissingFromOrderRejected == MissingFromOrder => bus # "ready"

(***************************************************************************)
(* C16  Handlers registered without generics                               *)
(***************************************************************************)
HandlerLacksGenerics ==
  Some(container.notificationHandlers \o RequestHandlers, LacksGenerics)

MissingNotificationGeneric(h) ==
  Failure(h, <<"Notification handler ", h,
               " is missing Notification generic">>)
MissingRequestGeneric(h) ==
  Failure(h, <<"Request handler ", h, " is missing generic Token">>)

\* No request handler registered before h is bound to an occupied key.
NoDuplicateBefore(h) ==
  \A j \in 1..Len(RequestHandlers) :
    DuplicateAt(j) =>
      \E i \in 1..(j - 1) : RequestHandlers[i] = h

MissingMiddlewareGenerics(m) ==
  Failure(m, <<"Middleware token ", m, " is missing generics">>)

\* C17: with a middleware registered without generics and well-formed
\* handlers, construction fails with the error that names the first such
\* middleware as missing its generics, whether or not MiddleWareOrder lists
\* that middleware.
C17_MiddlewareWithoutGenericsRejected ==
  (/\ Some(container.middlewares, LacksGenerics)
   /\ ~HandlerLacksGenerics
   /\ ~HasDuplicate) =>
    /\ bus # "ready"
    /\ bus = "failed" =>
         constructError =
           MissingMiddlewareGenerics(First(container.middlewares,
                                           LacksGenerics))

(***************************************************************************)
(* C18  What the publisher receives                                        *)
(***************************************************************************)
RECURSIVE ErrorsOf(_)
ErrorsOf(failures) ==
  IF failures = <<>> THEN <<>>
  ELSE <<HandlerError(Head(failures).who)>> \o ErrorsOf(Tail(failures))

\* What the terminal step of the publish settled with, read from what the
\* handlers did: best-effort's list of failures, the first failure under
\* the other two strategies, nothing when no handler failed.
TerminalResolution ==
  CASE call.strategy = "besteffort" -> ErrorList(ErrorsOf(Failures(call.log)))
    [] call.strategy \in {"sequential", "parallel"} ->
         IF Failures(call.log) # <<>>
         THEN HandlerError(Failures(call.log)[1].who)
         ELSE Void
    [] OTHER -> Failure("publish",
                        <<"Invalid publish strategy: ", call.strategy>>)

PublishOver ==
  /\ call.op = "publish"
  /\ call.phase = "done"
  /\ ReachedTerminal

ReturnsNextsResult(b) == b \in {"pass", "swap"}

\* C18 as stated: whatever the middleware of the chain do, the publisher
\* receives exactly what the terminal step settled with.
C18_PublisherReceivesTerminal ==
  PublishOver => call.value = TerminalResolution

\* C18: when every middleware of the chain returns the result of next
\* unchanged, the publisher receives exactly what the terminal step settled
\* with: under best-effort the list of the collected failures.
C18_PublisherReceivesTerminalUnchanged ==
  (PublishOver /\ \A i \in 1..Len(call.behav) :
                    ReturnsNextsResult(call.behav[i]))
    => call.value = TerminalResolution

\* A best-effort publish through two middleware, one handler failed.
C18_Witness ==
  /\ PublishOver
  /\ IsBestEffort
  /\ Len(call.chain) = 2
  /\ \A i \in 1..Len(call.behav) : ReturnsNextsResult(call.behav[i])
  /\ Len(Failures(call.log)) = 1
  /\ call.inflight = {}
  /\ call.value = ErrorList(<<HandlerError(Failures(call.log)[1].who)>>)

(***************************************************************************)
(* C19  The lookup tables after construction                               *)
(***************************************************************************)
\* C19: once the dispatcher is built, no step of any invoke or publish
\* changes the notification, request or middleware table.
C19_RegistryFrozen == [][bus = "ready" => registry' = registry]_vars

\* A publish has failed and an earlier handler was called; the tables are
\* the ones the factory built.
C19_Witness ==
  /\ bus = "ready"
  /\ call.op = "publish"
  /\ call.phase = "done"
  /\ IsFailure(call.value)
  /\ Starts(call.log) # <<>>
  /\ registry = <<EventBusFactory(container).notificationsState,
                  EventBusFactory(container).requestsState,
                  EventBusFactory(container).middlewareState>>

(***************************************************************************)
(* C20  A failure during invoke                                            *)
(***************************************************************************)
Throws == \E i \in 1..Len(call.behav) : call.behav[i] = "throw"
Raised ==
  /\ call.op = "invoke"
  /\ Throws \/ Happened("failed", call.handler)

Befores(n) == [i \in 1..n |-> <<"before", call.chain[i]>>]

\* C20: once the handler of an invoke has failed or a middleware has
\* thrown, that failure is the value travelling out and the outcome of the
\* call: the events of the call are the before-phases of the middleware
\* entered so far and, if the handler was reached, its call and failure; no
\* after-phase runs, no middleware inside the one that threw is entered, the
\* handler is not called after a throw, and nothing is collected with the
\* failure.
C20_InvokeFailurePropagates ==
  Raised =>
    /\ call.phase \in {"up", "done"}
    /\ call.errors = <<>>
    /\ call.value.errs = <<>>
    /\ call.value.wraps = <<>>
    /\ IF Throws
       THEN /\ call.behav[Len(call.behav)] = "throw"
            /\ call.value = MiddlewareError(call.chain[Len(call.behav)])
            /\ Kinds(call.log) = Befores(Len(call.behav))
       ELSE /\ call.value = HandlerError(call.handler)
            /\ Kinds(call.log) =
                 Befores(Len(call.chain))
                   \o <<<<"start", call.handler>>, <<"failed", call.handler>>>>

\* The second of two middleware threw; the invoke is over.
C20_Witness ==
  /\ Raised
  /\ call.phase = "done"
  /\ Len(call.chain) = 2
  /\ call.behav = <<"wrap", "throw">>
  /\ call.value = MiddlewareError(call.chain[2])

(***************************************************************************)
(* C21  A middleware that does not call next                               *)
(***************************************************************************)
Shorts == \E i \in 1..Len(call.behav) : call.behav[i] = "short"

\* The after-phases of the middleware outside the n-th that have resumed,
\* innermost first.
AftersOutside(n) ==
  [k \in 1..(n - 1 - call.depth) |-> <<"after", call.chain[n - k]>>]
RECURSIVE WrapsOutside(_, _)
WrapsOutside(n, d) ==
  IF n - 1 <= d THEN <<>>
  ELSE (IF call.behav[n - 1] = "wrap" THEN <<call.chain[n - 1]>> ELSE <<>>)
         \o WrapsOutside(n - 1, d)

\* C21: once a middleware of a call has returned without calling next, it
\* is the last middleware entered: the events of the call are the
\* before-phases down to it and the after-phases of the middleware outside
\* it, no handler is ever called, and the value travelling out, and in the
\* end the caller's, is that middleware's return value as the outer
\* middleware passed it back.
C21_ShortCircuit ==
  (call.op # "none" /\ Shorts) =>
    LET n == Len(call.behav)
    IN /\ call.behav[n] = "short"
       /\ call.phase \in {"up", "done"}
       /\ TerminalEvents(call.log) = <<>>
       /\ Kinds(call.log) = Befores(n) \o AftersOutside(n)
       /\ call.value =
            [ShortValue(call.chain[n])
               EXCEPT !.wraps = WrapsOutside(n, call.depth)]

\* The inner of two middleware returned without calling next, the outer
\* one wrapped what it got; the call is over.
C21_Witness ==
  /\ call.phase = "done"
  /\ call.behav = <<"wrap", "short">>
  /\ call.value = [ShortValue(call.chain[2]) EXCEPT !.wraps = <<call.chain[1]>>]
  /\ Kinds(call.log) = <<<<"before", call.chain[1]>>,
                         <<"before", call.chain[2]>>,
                         <<"after", call.chain[1]>>>>

(***************************************************************************)
(* Vocabulary of the hierarchy properties                                  *)
(***************************************************************************)
\* The tokens reachable from a set of tokens through implements, found by
\* adding parents until nothing is added.
RECURSIVE ReachableFrom(_)
ReachableFrom(S) ==
  LET next == S \cup UNION {Range(container.implements[t]) : t \in S}
  IN IF next = S THEN S ELSE ReachableFrom(next)

\* The middleware bound to a type the token reaches.
BoundAbove(token) ==
  {m \in Range(container.middlewares) :
     Range(container.generics[m]) \cap ReachableFrom({token}) # {}}

\* A token that is its own ancestor can be reached from the token.
CycleAbove(token) ==
  \E t \in ReachableFrom({token}) :
    t \in ReachableFrom(Range(container.implements[t]))

EnteredCount(m) ==
  Len(SelectSeq(call.log, LAMBDA e : e.ev = "before" /\ e.who = m))

WalkEnded == call.op # "none" /\ call.value # StackOverflow

(***************************************************************************)
(* C22  A middleware found several times                                   *)
(***************************************************************************)
\* C22: in every dispatch no middleware is entered twice, and once the
\* terminal step is reached every middleware of MiddleWareOrder bound to a
\* type the message's type reaches has been entered exactly once, also when
\* it is bound to the type and to an ancestor, or is reached through
\* several ancestor paths.
C22_EnteredOnce ==
  WalkEnded =>
    \A m \in MiddlewareKeys :
      /\ EnteredCount(m) <= 1
      /\ (/\ ReachedTerminal
          /\ m \in BoundAbove(call.req.token)
          /\ m \in Range(container.middlewareOrder))
         => EnteredCount(m) = 1

\* M1 is bound to "Ping" and to the notification base kind, M2 to a token
\* that "Ping" reaches along two paths; a publish has entered each once.
C22_Witness ==
  /\ call.op = "publish"
  /\ call.phase = "done"
  /\ ReachedTerminal
  /\ container.generics["M1"] = <<"Ping", INotificationToken>>
  /\ container.generics["M2"] = <<"IRoot">>
  /\ container.implements["Ping"] = <<INotificationToken, "IA", "IB">>
  /\ EnteredCount("M1") = 1
  /\ EnteredCount("M2") = 1

EnteredSeq ==
  LET befores == SelectSeq(call.log, LAMBDA e : e.ev = "before")
  IN [i \in 1..Len(befores) |-> befores[i].who]

\* MiddleWareOrder restricted to the middleware bound to a type the
\* message's type reaches.
OrderRestricted ==
  SelectSeq(container.middlewareOrder,
            LAMBDA m : m \in BoundAbove(call.req.token))

\* C24: in every dispatch the middleware entered so far are the first ones
\* of MiddleWareOrder restricted to the middleware bound to the message's
\* type or to one of its ancestors, and all of them once the terminal step
\* is reached; a middleware bound to other types only is never entered, and
\* the order of registration plays no part.
C24_EnteredInOrder ==
  WalkEnded =>
    /\ IsPrefix(EnteredSeq, OrderRestricted)
    /\ ReachedTerminal => EnteredSeq = OrderRestricted
    /\ \A m \in MiddlewareKeys :
         m \notin BoundAbove(call.req.token) => ~Entered(m)

\* M1 was registered before M2 and the order lists M2 first: a publish
\* entered M2, then M1.
C24_Witness ==
  /\ call.op = "publish"
  /\ call.phase = "done"
  /\ ReachedTerminal
  /\ container.middlewares = <<"M1", "M2">>
  /\ container.middlewareOrder = <<"M2", "M1">>
  /\ EnteredSeq = <<"M2", "M1">>

(***************************************************************************)
(* C25  The middleware resolved for a type                                 *)
(***************************************************************************)
\* C25: in a built dispatcher, for every message type whose ancestors hold
\* no cycle, the middleware the walk finds are exactly those bound to the
\* type, to its parents, or to a parent of these, every listed parent
\* followed; and the pipeline of a call holds those of them that
\* MiddleWareOrder lists.
C25_ResolvedIsUnionOverAncestors ==
  bus = "ready" =>
    /\ \A token \in MessageKeys :
         ~CycleAbove(token) =>
           Range(FindMiddlewaresForToken(token)) = BoundAbove(token)
    /\ (WalkEnded /\ call.cur # NoMessage) =>
         Range(call.chain) =
           BoundAbove(call.req.token) \cap Range(container.middlewareOrder)

\* "Ping" implements IA next to its base kind, IA implements IB, IB
\* implements IRoot; a publish entered the middleware bound to IRoot and
\* the one bound to IA.
C25_Witness ==
  /\ call.op = "publish"
  /\ call.phase = "done"
  /\ container.implements["Ping"] = <<INotificationToken, "IA">>
  /\ container.implements["IB"] = <<"IRoot">>
  /\ container.generics["M1"] = <<"IRoot">>
  /\ container.generics["M2"] = <<"IA", "CreateUser">>
  /\ Entered("M1")
  /\ Entered("M2")

(***************************************************************************)
(* C26  The walk on a hierarchy with a cycle                               *)
(***************************************************************************)
\* C26: for every hierarchy, one with a cycle included, the walk that
\* resolves the middleware of a call comes to an end by itself: no call
\* ends because the walk went on calling itself until the call stack was
\* used up.
C26_WalkNeverExhaustsStack ==
  call.op # "none" => call.value # StackOverflow

(***************************************************************************)
(* C27  A notification handler of several notifications                    *)
(***************************************************************************)
StartedHandlers ==
  [i \in 1..Len(Starts(call.log)) |-> Starts(call.log)[i].who]

\* C27: in a built dispatcher the list under every notification type holds
\* the handlers that name the type among their generics, in the order the
\* handlers were registered, so a handler of several types is in the list of
\* each; and a parallel or best-effort publish of any of its types that
\* reaches the terminal step has called exactly the handlers of that list,
\* in that order.
C27_ListedUnderEachType ==
  bus = "ready" =>
    /\ \A token \in NotificationKeys :
         IF RegisteredHandlers(token) = <<>>
         THEN token \notin DOMAIN notificationsState
         ELSE /\ token \in DOMAIN notificationsState
              /\ notificationsState[token] = RegisteredHandlers(token)
    /\ ((IsBestEffort \/ IsParallel) /\ ReachedTerminal) =>
         StartedHandlers = RegisteredHandlers(call.req.token)

\* HA was registered before HB; HB names "Ping" and "Pong", HA "Pong" only.
\* A publish of "Pong" called HA, then HB, and HB is the handler of "Ping".
C27_Witness ==
  /\ bus = "ready"
  /\ container.notificationHandlers = <<"HA", "HB">>
  /\ container.generics["HB"] = <<"Ping", "Pong">>
  /\ container.generics["HA"] = <<"Pong">>
  /\ notificationsState["Ping"] = <<"HB">>
  /\ call.op = "publish"
  /\ call.req.token = "Pong"
  /\ call.phase = "done"
  /\ StartedHandlers = <<"HA", "HB">>

(***************************************************************************)
(* C28  One request table for commands and queries                         *)
(***************************************************************************)
\* A command handler and a query handler are bound to the same key.
CrossDuplicate ==
  \E c \in Range(container.commandHandlers),
     q \in Range(container.queryHandlers) :
    /\ ~LacksGenerics(c)
    /\ ~LacksGenerics(q)
    /\ container.generics[c][1] = container.generics[q][1]

AlreadyRegistered(h) ==
  Failure(h, <<"Request handler ", h, " is already registered for Token ",
               container.generics[h][1]>>)

\* C28: a command handler and a query handler bound to the same key never
\* yield a dispatcher, and when nothing else is wrong with the container
\* the construction error is the one of a duplicate, naming the query
\* handler; in every dispatcher built, each key has at most one request
\* handler bound to it, command or query, and the table maps the key to
\* that handler.
C28_OneRequestTable ==
  /\ CrossDuplicate =>
       /\ bus # "ready"
       /\ (/\ bus = "failed"
           /\ OrderLongEnough
           /\ ~HandlerLacksGenerics
           /\ Len(container.commandHandlers) = 1)
          => constructError = AlreadyRegistered(container.queryHandlers[1])
  /\ bus = "ready" =>
       \A key \in TokenKeys :
         /\ Cardinality(RequestHandlersFor(key)) <= 1
         /\ IF RequestHandlersFor(key) = {}
            THEN key \notin DOMAIN requestsState
            ELSE /\ key \in DOMAIN requestsState
                 /\ requestsState[key] \in RequestHandlersFor(key)

\* Construction failed on a query handler bound to the key of the command
\* handler.
C28_Witness ==
  /\ bus = "failed"
  /\ container.commandHandlers = <<"CH">>
  /\ container.queryHandlers = <<"QH">>
  /\ container.generics["QH"] = <<"CreateUser">>
  /\ constructError = AlreadyRegistered("QH")

(***************************************************************************)
(* C29  The error of the order check                                       *)
(***************************************************************************)
OrderCheckFailed ==
  /\ bus = "failed"
  /\ constructError.by = "EventBusFactory"

\* C29: when construction fails in the check of MiddleWareOrder, the one
\* error thrown lists, after its heading, every bound middleware that the
\* order does not contain, each once, and no middleware that the order
\* contains.
C29_OrderErrorNamesTheMissing ==
  OrderCheckFailed =>
    LET named == Tail(constructError.msg)
    IN /\ constructError.msg[1] = "Missing middlewares in middleware order: "
       /\ Range(named) =
            Range(container.middlewares) \ Range(container.middlewareOrder)
       /\ Len(named) = Cardinality(Range(named))

\* Two middleware are bound, the order is empty: the error names both.
C29_Witness ==
  /\ OrderCheckFailed
  /\ container.middlewareOrder = <<>>
  /\ Range(Tail(constructError.msg)) = {"M1", "M2"}

(***************************************************************************)
(* C30  Calls in progress at the same time                                 *)
(***************************************************************************)
\* Both calls have been made, and one of them is still in progress or was
\* when the other was made.
Concurrent == call.op # "none" /\ parked.op # "none"

StartsOf(c) == SelectSeq(c.log, LAMBDA e : e.ev = "start")
BeforesOf(c) == SelectSeq(c.log, LAMBDA e : e.ev = "before")

\* The call c runs its own pipeline over its own message: the pipeline of
\* its message's type; every middleware is handed the call's message, or
\* the one a middleware of this call put in its place; the handlers are
\* those of its message's type and are handed this call's message; and an
\* invoke through middleware that return next's result ends with the value
\* of its own handler for the message that handler was handed.
OwnPipeline(c) ==
  /\ c.cur # NoMessage =>
       /\ c.chain = SelectSeq(container.middlewareOrder,
                              LAMBDA m : m \in BoundAbove(c.req.token))
       /\ c.cur.token = c.req.token
       /\ c.cur.payload \in {c.req.payload, SwappedPayload}
  /\ \A i \in 1..Len(BeforesOf(c)) :
       /\ BeforesOf(c)[i].arg.token = c.req.token
       /\ BeforesOf(c)[i].arg.payload \in {c.req.payload, SwappedPayload}
       /\ ("swap" \notin Range(c.behav)) => BeforesOf(c)[i].arg = c.req
  /\ c.op = "invoke" =>
       /\ c.handler = requestsState[c.req.token]
       /\ \A i \in 1..Len(StartsOf(c)) :
            /\ StartsOf(c)[i].who = c.handler
            /\ StartsOf(c)[i].arg = c.cur
            /\ ("swap" \notin Range(c.behav)) => StartsOf(c)[i].arg = c.req
       /\ (/\ c.phase = "done"
           /\ StartsOf(c) # <<>>
           /\ \A i \in 1..Len(c.log) : c.log[i].ev # "failed"
           /\ \A i \in 1..Len(c.behav) : c.behav[i] \in {"pass", "swap"})
          => c.value = HandlerResult(c.handler, c.cur)
  /\ c.op = "publish" =>
       /\ c.handlers = RegisteredHandlers(c.req.token)
       /\ \A i \in 1..Len(StartsOf(c)) :
            /\ StartsOf(c)[i].who \in Range(c.handlers)
            /\ StartsOf(c)[i].arg.payload = c.req.payload

\* C30: with two calls on one dispatcher taking their steps in any order,
\* each call runs its own pipeline over its own message, and each invoke
\* ends with the result of its own handler for its own message.
C30_CallsShareNothing ==
  Concurrent => OwnPipeline(call) /\ OwnPipeline(parked)

\* Two invokes of the same command with different payloads: the second
\* went through the middleware and has its handler's result for its own
\* message while the first still waits for its handler.
C30_Witness ==
  /\ parked.op = "invoke"
  /\ parked.req = Message("CreateUser", CallerPayload)
  /\ parked.phase = "terminal"
  /\ call.op = "invoke"
  /\ call.req = Message("CreateUser", OtherPayload)
  /\ call.phase = "done"
  /\ Len(call.chain) = 1
  /\ call.value = HandlerResult("CH", Message("CreateUser", OtherPayload))

(***************************************************************************)
(* C31  The nesting does not depend on the call                            *)
(***************************************************************************)
\* Two calls of the same message type have been made on the dispatcher.
SameType ==
  /\ call.op # "none"
  /\ parked.op # "none"
  /\ call.req.token = parked.req.token

EnteredBy(c) == [i \in 1..Len(BeforesOf(c)) |-> BeforesOf(c)[i].who]

\* Every middleware the call entered called next.
AllCalledNext(c) == \A i \in 1..Len(c.behav) : CallsNext(c.behav[i])

\* The call went through its whole pipeline.
WentThrough(c) ==
  /\ c.phase \in {"terminal", "up", "done"}
  /\ Len(c.behav) = Len(c.chain)
  /\ AllCalledNext(c)

\* C31: of two calls of the same message type on one dispatcher, whatever
\* their payloads, their strategies, the calls made before them and the
\* outcomes of their handlers, the middleware one has entered so far are the
\* first ones the other has entered or will enter, in the same order; the
\* two nest the same middleware in the same order once both have gone
\* through their pipelines.
C31_SameNestingForSameType ==
  SameType =>
    /\ call.chain = parked.chain
    /\ IsPrefix(EnteredBy(call), EnteredBy(parked))
         \/ IsPrefix(EnteredBy(parked), EnteredBy(call))
    /\ (WentThrough(call) /\ WentThrough(parked)) =>
         EnteredBy(call) = EnteredBy(parked)

\* Two publishes of "Ping" with different payloads, a sequential one whose
\* handler failed and a parallel one whose handler returned: both entered
\* M2, then M1.
C31_Witness ==
  /\ SameType
  /\ parked.req = Message("Ping", CallerPayload)
  /\ parked.strategy = "sequential"
  /\ parked.phase = "done"
  /\ IsFailure(parked.value)
  /\ call.req = Message("Ping", OtherPayload)
  /\ call.strategy = "parallel"
  /\ call.phase = "done"
  /\ ~IsFailure(call.value)
  /\ EnteredBy(parked) = <<"M2", "M1">>
  /\ EnteredBy(call) = <<"M2", "M1">>
  /\ Len(StartsOf(call)) = 1
  /\ Len(StartsOf(parked)) = 1

ForwardedRequest ==
  IF call.behav = <<>> THEN call.req
  ELSE LET n == Len(call.behav)
           received == BeforesOf(call)[n].arg
       IN IF call.behav[n] = "swap"
          THEN Message(received.token, SwappedPayload)
          ELSE received

\* C33: the request handler of an invoke was called with the request object
\* that the innermost middleware passed to next, token and payload, which
\* is the caller's message when no middleware put another in its place.
C33_HandlerGetsForwardedRequest ==
  call.op = "invoke" =>
    \A i \in 1..Len(Starts(call.log)) :
      LET started == Starts(call.log)[i]
      IN /\ started.who = call.handler
         /\ started.arg = ForwardedRequest
         /\ started.arg.token = call.req.token
         /\ ("swap" \notin Range(call.behav)) => started.arg = call.req

\* The outer middleware passed the command on, the inner one put another
\* request in its place: the handler was called with that request and the
\* caller received the handler's result for it.
C33_Witness ==
  /\ call.op = "invoke"
  /\ call.phase = "done"
  /\ call.req = Message("CreateUser", CallerPayload)
  /\ call.behav = <<"pass", "swap">>
  /\ Starts(call.log) =
       <<Event("start", "CH", Message("CreateUser", SwappedPayload))>>
  /\ call.value = HandlerResult("CH", Message("CreateUser", SwappedPayload))

(***************************************************************************)
(* C34  Middleware of a notification nobody handles                        *)
(***************************************************************************)
\* C34: when a publish has gone through its pipeline, every middleware
\* bound to the notification's type or to one of its ancestors has been
\* entered, whether or not the type has handlers.
C34_ApplicableMiddlewareEntered ==
  (call.op = "publish" /\ ReachedTerminal) =>
    \A m \in Range(container.middlewares) :
      AppliesTo(m, call.req.token) => Entered(m)

(***************************************************************************)
(* C35  publish with an unknown strategy                                   *)
(***************************************************************************)
InvalidStrategy(strategy) ==
  Failure("publish", <<"Invalid publish strategy: ", strategy>>)

\* publish was given a strategy that is none of the three.
UnknownStrategy ==
  /\ call.op = "publish"
  /\ call.given \notin Strategies \cup {"undefined"}

\* C35: a publish with a strategy that is none of the three calls and
\* resolves no notification handler; once its pipeline has been gone
\* through, it has failed with the invalid-strategy error naming the
\* strategy, and this failure is what the caller receives; and the error
\* exists only from the terminal step on, when every middleware of the
\* pipeline (the applicable ones that MiddleWareOrder lists) has run its
\* before-phase and called next.
C35_UnknownStrategyFailsAtTerminal ==
  UnknownStrategy =>
    /\ Starts(call.log) = <<>>
    /\ call.inflight = {}
    /\ call.resolved = call.chain
    /\ TerminalSettled => call.value = InvalidStrategy(call.given)
    /\ IsFailure(call.value) /\ call.value.by = "publish" =>
         /\ call.value = InvalidStrategy(call.given)
         /\ EnteredSeq = OrderRestricted
         /\ AllCalledNext(call)

\* Two handlers are bound to "Ping" and two middleware apply: a publish
\* with an unknown strategy entered both middleware and then failed without
\* a handler being called.
C35_Witness ==
  /\ UnknownStrategy
  /\ call.phase = "done"
  /\ Len(RegisteredHandlers(call.req.token)) = 2
  /\ Len(EnteredSeq) = 2
  /\ "wrap" \in Range(call.behav)
  /\ call.value = InvalidStrategy("bogus")
  /\ Starts(call.log) = <<>>

(***************************************************************************)
(* C36  No handler in flight when the terminal step resolves               *)
(***************************************************************************)
\* The handler has returned or failed.
HasSettled(h) == Happened("settled", h) \/ Happened("failed", h)

\* C36: when the terminal step of a parallel publish has resolved
\* successfully, or the one of a best-effort publish has resolved with its
\* list, every handler of the notification has been started and has
\* settled: none is still in flight.
C36_ResolvedAfterAllSettled ==
  ((IsParallel \/ IsBestEffort) /\ TerminalSettled
     /\ ~IsFailure(call.value)) =>
    /\ call.inflight = {}
    /\ StartedHandlers = call.handlers
    /\ \A h \in Range(call.handlers) : HasSettled(h)

\* Best effort with two handlers: the second returned while the first was
\* still running, the first failed later, and only then the publish
\* returned its list of one failure.
C36_Witness ==
  /\ IsBestEffort
  /\ call.phase = "done"
  /\ call.handlers = <<"HB", "HA">>
  /\ Kinds(TerminalEvents(call.log)) =
       <<<<"start", "HB">>, <<"start", "HA">>,
         <<"settled", "HA">>, <<"failed", "HB">>>>
  /\ call.value = ErrorList(<<HandlerError("HB")>>)

(***************************************************************************)
(* C37  How often a call invokes a handler                                 *)
(***************************************************************************)
\* How often the generics of the handler token name the type: once for
\* each time, the factory puts the token on the type's list.
Listings(h, token) ==
  Cardinality({i \in 1..Len(container.generics[h]) :
                 container.generics[h][i] = token})

\* How often the call has invoked the handler.
StartsCount(h) ==
  Cardinality({i \in 1..Len(Starts(call.log)) : Starts(call.log)[i].who = h})

NoHandlerFailed == \A i \in 1..Len(call.log) : call.log[i].ev # "failed"

\* C37 as stated: a call whose middleware all called next has, when it is
\* over, invoked the request handler once (invoke), or every handler bound
\* to the notification's type once for each time it is listed (publish).
C37_ExactlyOncePerListing ==
  (ReachedTerminal /\ call.phase = "done") =>
    /\ call.op = "invoke" =>
         /\ Len(Starts(call.log)) = 1
         /\ StartsCount(call.handler) = 1
    /\ call.op = "publish" =>
         \A h \in Range(container.notificationHandlers) :
           StartsCount(h) = Listings(h, call.req.token)

\* C37 amended: from the terminal step on, an invoke whose middleware all
\* called next has invoked its request handler once and nothing else; a
\* publish whose middleware all called next has invoked no handler more
\* often than it is listed for the notification's type, and every handler
\* once for each listing under the parallel and best-effort strategies and,
\* once its terminal step has settled, under the sequential strategy when
\* no handler failed; under a strategy that is none of the three it has
\* invoked none.
C37_OncePerListingUnlessStopped ==
  ReachedTerminal =>
    /\ call.op = "invoke" =>
         /\ Len(Starts(call.log)) = 1
         /\ StartsCount(call.handler) = 1
    /\ call.op = "publish" =>
         \A h \in Range(container.notificationHandlers) :
           /\ StartsCount(h) <= Listings(h, call.req.token)
           /\ (IsParallel \/ IsBestEffort) =>
                StartsCount(h) = Listings(h, call.req.token)
           /\ (IsSequential /\ TerminalSettled /\ NoHandlerFailed) =>
                StartsCount(h) = Listings(h, call.req.token)
           /\ UnknownStrategy => StartsCount(h) = 0

\* HB is bound to "Ping" twice and registered before HA: a best-effort
\* publish through a middleware that called next invoked HB, HB and HA.
C37_Witness ==
  /\ IsBestEffort
  /\ call.phase = "done"
  /\ ReachedTerminal
  /\ Len(call.chain) = 1
  /\ container.generics["HB"] = <<"Ping", "Ping">>
  /\ StartedHandlers = <<"HB", "HB", "HA">>
  /\ StartsCount("HB") = 2
  /\ StartsCount("HA") = 1

(***************************************************************************)
(* C38  A request handler that names several types                         *)
(***************************************************************************)
\* The types the generics of a request handler name after the first.
OtherTypes(h) ==
  {container.generics[h][k] : k \in 2..Len(container.generics[h])}
    \ {container.generics[h][1]}

\* C38: for a request handler h whose generics name a type t after the
\* first: a second handler bound to t is accepted, that is, construction
\* does not fail when no two handlers share their first type; and in the
\* dispatcher built, h is the handler of its first type only: t has a
\* handler exactly when another binding has t as its first type, an invoke
\* of t is served by that handler, and without one it has failed with the
\* handler-not-found error for t before anything ran.
C38_OnlyFirstTypeRegistered ==
  \A h \in Range(RequestHandlers) :
    \A t \in OtherTypes(h) :
      /\ ~HasDuplicate => bus # "failed"
      /\ bus = "ready" =>
           /\ requestsState[container.generics[h][1]] = h
           /\ h \notin RequestHandlersFor(t)
           /\ IF RequestHandlersFor(t) = {}
              THEN t \notin DOMAIN requestsState
              ELSE /\ t \in DOMAIN requestsState
                   /\ requestsState[t] \in RequestHandlersFor(t)
           /\ (call.op = "invoke" /\ call.req.token = t) =>
                IF RequestHandlersFor(t) = {}
                THEN /\ call.phase = "done"
                     /\ call.value = NotFound(t)
                     /\ call.log = <<>>
                ELSE /\ call.handler \in RequestHandlersFor(t)
                     /\ \A i \in 1..Len(Starts(call.log)) :
                          Starts(call.log)[i].who # h

\* CH names "CreateUser" and then "GetUser", QH is bound to "GetUser": the
\* dispatcher was built, and an invoke of "GetUser" returned QH's result.
C38_Witness ==
  /\ bus = "ready"
  /\ container.generics["CH"] = <<"CreateUser", "GetUser">>
  /\ container.queryHandlers = <<"QH">>
  /\ requestsState = ("CreateUser" :> "CH" @@ "GetUser" :> "QH")
  /\ call.op = "invoke"
  /\ call.req.token = "GetUser"
  /\ call.phase = "done"
  /\ call.value = HandlerResult("QH", call.req)

====
